---- MODULE Spec2Model ----
(***************************************************************************)
(* A model of the HDL chip simulator (src/src/chip_simulator.py), of the    *)
(* builtin gate implementations (src/src/gates/builtin_gates.py), of the   *)
(* HDL parser (src/src/hdl_parser.py), of the test runner                  *)
(* (src/src/tester.py) and of the classes of src/src/models.               *)
(*                                                                         *)
(* Python values are modelled as follows: a dict is a function whose       *)
(* DOMAIN is its key set, a list is a sequence, None is the integer -1,    *)
(* a raised exception is a record [kind, what] (NoError when nothing was   *)
(* raised).  A part's connections dict keeps its insertion order: it is a  *)
(* sequence of <<pin, signal>> pairs with distinct pins.                   *)
(***************************************************************************)
EXTENDS Integers, Sequences, FiniteSets, TLC

VARIABLES
    files,        \* the HDL directory: chip name -> what <name>.hdl parses to
    chip_cache,   \* ChipSimulator.chip_cache
    parse_count,  \* chip name -> number of parse_hdl_file calls for it
    load_names,   \* chip names load_chip_definition has been called with
    phase,        \* position of the running simulate_chip call
    call,         \* arguments of the running simulate_chip call
    instance,     \* the ChipInstance tree of the running call
    pc,           \* index into instance.sub_chips of the next part
    evaluated,    \* sub_chips entries evaluated so far by simulate, in order
    outcome,      \* what simulate_chip returned or raised
    history,      \* completed simulate_chip calls, in order
    gate,         \* builtin gate under evaluation
    gate_in,      \* its input map
    gate_out,     \* results of the gate implementations
    threads,      \* the concurrent simulate_chip calls, one per thread
    text,         \* HDL source text given to the tokenizer
    tokens,       \* what tokenize returned for text
    parse_out,    \* what _parse_chip returned or raised for tokens
    sim_state,    \* a models.SimulationState
    state_call,   \* the last call made on it and what it returned or raised
    definition_args, \* arguments of the models.ChipDefinition constructor
    definition_out,  \* the object it built, or what it raised
    results,      \* the models TestResult objects created so far
    report,       \* a models.TestReport
    add_calls,    \* number of add_result calls made on it
    test_suite,   \* the TestSuite run_test_file parsed from the test file
    test_results, \* run_test_file: the result list so far
    passed_count, \* run_test_file: the counter of passed cases
    summary_stats \* run_test_file: the summary it returned

simVars  == <<chip_cache, parse_count, load_names>>
callVars == <<phase, call, instance, pc, evaluated, outcome>>
gateVars == <<gate, gate_in, gate_out>>
threadVars == <<threads>>
parserVars == <<text, tokens, parse_out>>
stateVars == <<sim_state, state_call>>
definitionVars == <<definition_args, definition_out>>
reportVars == <<results, report, add_calls>>
testerVars == <<test_suite, test_results, passed_count, summary_stats>>
modelVars == <<stateVars, definitionVars, reportVars, testerVars>>
vars     == <<files, chip_cache, parse_count, load_names, phase, call,
              instance, pc, evaluated, outcome, history, gate, gate_in,
              gate_out, threads, text, tokens, parse_out, sim_state,
              state_call, definition_args, definition_out, results, report,
              add_calls, test_suite, test_results, passed_count,
              summary_stats>>

-----------------------------------------------------------------------------
(* Bounds of the model *)

\* longest PARTS list of the generated chip Top
MaxParts == 2
\* deepest ChipInstance nesting explored before Python's recursion limit is
\* taken to be hit (acyclic directories of the model nest at most 3 deep)
MaxDepth == 4
\* simulate_chip calls made on one ChipSimulator
MaxCalls == 3

-----------------------------------------------------------------------------
(* Python values *)

\* TestResult objects built, and add_result calls made, in one run
MaxResults == 3

None == -1

NoError == [kind |-> "", what |-> ""]
Raise(kind, what) == [kind |-> kind, what |-> what]

\* dict[key] = value
DictSet(d, key, value) ==
    [k \in DOMAIN d \cup {key} |-> IF k = key THEN value ELSE d[k]]

EmptyDict == [k \in {} |-> None]

\* membership in a list
InList(x, list) == \E i \in 1..Len(list) : list[i] = x

\* connections dict: key test and lookup
ConnHas(connections, pin) ==
    \E i \in 1..Len(connections) : connections[i][1] = pin
ConnGet(connections, pin) ==
    connections[CHOOSE i \in 1..Len(connections) : connections[i][1] = pin][2]

-----------------------------------------------------------------------------
(* chip_simulator.BuiltInGates *)

nand(a, b) == IF a = 1 /\ b = 1 THEN 0 ELSE 1

\* a Not that passes its operand through
not_gate_passing(input_val) == IF input_val = 1 THEN 1 ELSE 0

not_gate(input_val) == IF input_val = 1 THEN 0 ELSE 1

and_gate(a, b) == IF a = 1 /\ b = 1 THEN 1 ELSE 0

\* an Or that is 1 only when exactly one operand is 1
or_gate_exclusive(a, b) == IF (a = 1) # (b = 1) THEN 1 ELSE 0

or_gate(a, b) == IF a = 1 \/ b = 1 THEN 1 ELSE 0

\* ChipSimulator.built_in_chips: the keys of the mapping
built_in_chips == {"Nand", "Not", "And", "Or"}

\* self.simulator.built_in_chips[chip_type] applied to its operands
gate_func(chip_type, a, b) ==
    CASE chip_type = "Nand" -> nand(a, b)
      [] chip_type = "Not"  -> not_gate(a)
      [] chip_type = "And"  -> and_gate(a, b)
      [] chip_type = "Or"   -> or_gate(a, b)

-----------------------------------------------------------------------------
(* ChipSimulator.load_chip_definition; st is the ChipSimulator's state     *)
(* [chip_cache, parse_count, load_names]                                   *)

NoDef == [name |-> "", inputs |-> <<>>, outputs |-> <<>>, parts |-> <<>>]

Count(counts, name) == IF name \in DOMAIN counts THEN counts[name] ELSE 0

\* a loader that takes an absent file for a chip without pins or parts
parse_hdl_file_lenient(chip_name) ==
    IF chip_name \notin DOMAIN files \/ ~files[chip_name].parses
    THEN [error |-> NoError, chip_def |-> NoDef]
    ELSE [error |-> NoError, chip_def |-> files[chip_name].chip_def]

\* hdl_parser.parse_hdl_file on <base_directory>/<chip_name>.hdl: open()
\* raises FileNotFoundError for an absent file, the parser raises ValueError
\* for text that is not a chip, otherwise the parsed ChipDefinition
parse_hdl_file(chip_name) ==
    IF chip_name \notin DOMAIN files
    THEN [error |-> Raise("FileNotFoundError", chip_name), chip_def |-> NoDef]
    ELSE IF ~files[chip_name].parses
    THEN [error |-> Raise("ValueError", chip_name), chip_def |-> NoDef]
    ELSE [error |-> NoError, chip_def |-> files[chip_name].chip_def]

\* a cache whose entries have lost their parts when they are read again
load_chip_definition_consumed(st, chip_name) ==
    LET asked == [st EXCEPT !.load_names = @ \cup {chip_name}] IN
    IF chip_name \in DOMAIN st.chip_cache
    THEN [error |-> NoError,
          chip_def |-> [st.chip_cache[chip_name] EXCEPT !.parts = <<>>],
          st |-> asked]
    ELSE LET parsed == parse_hdl_file(chip_name)
             counted == [asked EXCEPT !.parse_count =
                            DictSet(@, chip_name, Count(@, chip_name) + 1)]
         IN IF parsed.error # NoError
            THEN [error |-> parsed.error, chip_def |-> NoDef, st |-> counted]
            ELSE [error |-> NoError, chip_def |-> parsed.chip_def,
                  st |-> [counted EXCEPT !.chip_cache =
                             DictSet(@, chip_name, parsed.chip_def)]]

\* a loader that empties the cache when a load fails
load_chip_definition_dropping(st, chip_name) ==
    LET asked == [st EXCEPT !.load_names = @ \cup {chip_name}] IN
    IF chip_name \in DOMAIN st.chip_cache
    THEN [error |-> NoError, chip_def |-> st.chip_cache[chip_name], st |-> asked]
    ELSE LET parsed == parse_hdl_file(chip_name)
             counted == [asked EXCEPT !.parse_count =
                            DictSet(@, chip_name, Count(@, chip_name) + 1)]
         IN IF parsed.error # NoError
            THEN [error |-> parsed.error, chip_def |-> NoDef,
                  st |-> [counted EXCEPT !.chip_cache = EmptyDict]]
            ELSE [error |-> NoError, chip_def |-> parsed.chip_def,
                  st |-> [counted EXCEPT !.chip_cache =
                             DictSet(@, chip_name, parsed.chip_def)]]

\* a loader that parses the file on every call
load_chip_definition_uncached(st, chip_name) ==
    LET asked == [st EXCEPT !.load_names = @ \cup {chip_name}]
        parsed == parse_hdl_file(chip_name)
        counted == [asked EXCEPT !.parse_count =
                       DictSet(@, chip_name, Count(@, chip_name) + 1)]
    IN IF parsed.error # NoError
       THEN [error |-> parsed.error, chip_def |-> NoDef, st |-> counted]
       ELSE [error |-> NoError, chip_def |-> parsed.chip_def,
             st |-> [counted EXCEPT !.chip_cache =
                        DictSet(@, chip_name, parsed.chip_def)]]

load_chip_definition(st, chip_name) ==
    LET asked == [st EXCEPT !.load_names = @ \cup {chip_name}] IN
    IF chip_name \in DOMAIN st.chip_cache
    THEN [error |-> NoError, chip_def |-> st.chip_cache[chip_name], st |-> asked]
    ELSE LET parsed == parse_hdl_file(chip_name)
             counted == [asked EXCEPT !.parse_count =
                            DictSet(@, chip_name, Count(@, chip_name) + 1)]
         IN IF parsed.error # NoError
            THEN [error |-> parsed.error, chip_def |-> NoDef, st |-> counted]
            ELSE [error |-> NoError, chip_def |-> parsed.chip_def,
                  st |-> [counted EXCEPT !.chip_cache =
                             DictSet(@, chip_name, parsed.chip_def)]]

-----------------------------------------------------------------------------
(* ChipInstance.__init__ and _instantiate_parts                            *)

ListSet(list) == {list[i] : i \in 1..Len(list)}

\* self.signals after the two initialising loops of __init__
InitialSignals(chip_def) ==
    [p \in ListSet(chip_def.inputs) \cup ListSet(chip_def.outputs) |-> None]

\* a test that takes only Nand and Not for primitives
IsBuiltinPartNandNot(part) == part.chip_type \in {"Nand", "Not"}

\* the test of _instantiate_parts that makes a part a builtin
IsBuiltinPart(part) == part.chip_type \in built_in_chips

RECURSIVE ChipInstance(_, _, _), InstantiateParts(_, _, _, _, _)

\* the loop of _instantiate_parts from part i on; sub_chips is the list so far
InstantiateParts(chip_def, i, sub_chips, st, depth) ==
    IF i > Len(chip_def.parts)
    THEN [error |-> NoError, sub_chips |-> sub_chips, st |-> st]
    ELSE LET part == chip_def.parts[i] IN
         IF IsBuiltinPart(part)
         THEN InstantiateParts(chip_def, i + 1,
                  Append(sub_chips, [type |-> "builtin",
                                     chip_type |-> part.chip_type,
                                     connections |-> part.connections]),
                  st, depth)
         ELSE LET ld == load_chip_definition(st, part.chip_type) IN
              IF ld.error # NoError
              THEN [error |-> ld.error, sub_chips |-> sub_chips, st |-> ld.st]
              ELSE LET sub == ChipInstance(ld.chip_def, ld.st, depth + 1) IN
                   IF sub.error # NoError
                   THEN [error |-> sub.error, sub_chips |-> sub_chips,
                         st |-> sub.st]
                   ELSE InstantiateParts(chip_def, i + 1,
                            Append(sub_chips, [type |-> "custom",
                                               chip_type |-> part.chip_type,
                                               connections |-> part.connections,
                                               instance |-> sub.instance]),
                            sub.st, depth)

\* ChipInstance(chip_def, simulator) at nesting depth `depth`; the interpreter
\* raises RecursionError when the nesting does not end
ChipInstance(chip_def, st, depth) ==
    IF depth > MaxDepth
    THEN [error |-> Raise("RecursionError", "maximum recursion depth exceeded"),
          instance |-> [chip_def |-> chip_def,
                        signals |-> InitialSignals(chip_def),
                        sub_chips |-> <<>>],
          st |-> st]
    ELSE LET r == InstantiateParts(chip_def, 1, <<>>, st, depth) IN
         [error |-> r.error,
          instance |-> [chip_def |-> chip_def,
                        signals |-> InitialSignals(chip_def),
                        sub_chips |-> r.sub_chips],
          st |-> r.st]

\* a set_inputs that stores every key of the map
set_inputs_unfiltered(inst, input_values) ==
    [inst EXCEPT !.signals =
        [k \in DOMAIN @ \cup DOMAIN input_values |->
            IF k \in DOMAIN input_values THEN input_values[k] ELSE @[k]]]

\* a set_inputs that declares an unknown key of the map as a new input pin of
\* the chip definition
set_inputs_declaring(inst, input_values) ==
    [inst EXCEPT
        !.chip_def.inputs =
            IF \E k \in DOMAIN input_values : ~InList(k, @)
            THEN Append(@, CHOOSE k \in DOMAIN input_values : ~InList(k, @))
            ELSE @,
        !.signals =
            [k \in DOMAIN @ \cup DOMAIN input_values |->
                IF k \in DOMAIN input_values THEN input_values[k] ELSE @[k]]]

\* ChipInstance.set_inputs
set_inputs(inst, input_values) ==
    [inst EXCEPT !.signals =
        [k \in DOMAIN @ |->
            IF k \in DOMAIN input_values /\ InList(k, inst.chip_def.inputs)
            THEN input_values[k] ELSE @[k]]]

-----------------------------------------------------------------------------
(* ChipInstance.simulate and its two part evaluators                       *)

\* a clearing loop that puts 0 where the code puts None
ClearSignalsToZero(inst) ==
    [inst EXCEPT !.signals =
        [k \in DOMAIN @ |->
            IF InList(k, inst.chip_def.inputs) THEN @[k] ELSE 0]]

\* the first loop of simulate: every signal that is not an input pin is unset
ClearSignals(inst) ==
    [inst EXCEPT !.signals =
        [k \in DOMAIN @ |->
            IF InList(k, inst.chip_def.inputs) THEN @[k] ELSE None]]

\* self.signals[connections[pin]]: KeyError when the part does not bind the
\* pin, or when the bound signal is not a key of the signal table
ReadPin(signals, connections, pin) ==
    IF ~ConnHas(connections, pin)
    THEN [error |-> Raise("KeyError", pin), value |-> None]
    ELSE IF ConnGet(connections, pin) \notin DOMAIN signals
    THEN [error |-> Raise("KeyError", ConnGet(connections, pin)), value |-> None]
    ELSE [error |-> NoError, value |-> signals[ConnGet(connections, pin)]]

\* self.signals[connections['out']] = result
WriteOut(signals, connections, result) ==
    IF ~ConnHas(connections, "out")
    THEN [error |-> Raise("KeyError", "out"), signals |-> signals]
    ELSE [error |-> NoError,
          signals |-> DictSet(signals, ConnGet(connections, "out"), result)]

\* a guard that lets the gate compute from an unset operand
OperandsAny(a_val, b_val) == TRUE

\* the test that guards the gate call and the write of its result
OperandsSet(a_val, b_val) == a_val # None /\ b_val # None

\* _simulate_builtin_chip on the signal table of the enclosing instance
simulate_builtin_chip(signals, sub_chip) ==
    LET chip_type == sub_chip.chip_type
        connections == sub_chip.connections
    IN IF chip_type = "Not"
       THEN LET in_val == ReadPin(signals, connections, "in") IN
            IF in_val.error # NoError
            THEN [error |-> in_val.error, signals |-> signals]
            ELSE IF OperandsSet(in_val.value, in_val.value)
            THEN WriteOut(signals, connections,
                          gate_func(chip_type, in_val.value, in_val.value))
            ELSE [error |-> NoError, signals |-> signals]
       ELSE LET a_val == ReadPin(signals, connections, "a")
                b_val == ReadPin(signals, connections, "b")
            IN IF a_val.error # NoError
               THEN [error |-> a_val.error, signals |-> signals]
               ELSE IF b_val.error # NoError
               THEN [error |-> b_val.error, signals |-> signals]
               ELSE IF OperandsSet(a_val.value, b_val.value)
               THEN WriteOut(signals, connections,
                             gate_func(chip_type, a_val.value, b_val.value))
               ELSE [error |-> NoError, signals |-> signals]

\* the first loop of _simulate_custom_chip from connection i on
RECURSIVE SubInputs(_, _, _, _, _)
SubInputs(signals, connections, inputs, i, sub_inputs) ==
    IF i > Len(connections)
    THEN [error |-> NoError, sub_inputs |-> sub_inputs]
    ELSE LET pin_name == connections[i][1]
             signal_name == connections[i][2]
         IN IF ~InList(pin_name, inputs)
            THEN SubInputs(signals, connections, inputs, i + 1, sub_inputs)
            ELSE IF signal_name \notin DOMAIN signals
            THEN [error |-> Raise("KeyError", signal_name),
                  sub_inputs |-> sub_inputs]
            ELSE SubInputs(signals, connections, inputs, i + 1,
                           DictSet(sub_inputs, pin_name, signals[signal_name]))

\* the last loop of _simulate_custom_chip from connection i on
RECURSIVE CopyOutputs(_, _, _, _, _)
CopyOutputs(signals, connections, outputs, i, sub_outputs) ==
    IF i > Len(connections)
    THEN signals
    ELSE LET pin_name == connections[i][1]
             signal_name == connections[i][2]
         IN IF InList(pin_name, outputs)
            THEN CopyOutputs(DictSet(signals, signal_name, sub_outputs[pin_name]),
                             connections, outputs, i + 1, sub_outputs)
            ELSE CopyOutputs(signals, connections, outputs, i + 1, sub_outputs)

\* the last loop of simulate: the output map
Outputs(inst) ==
    [p \in ListSet(inst.chip_def.outputs) |-> inst.signals[p]]

\* a loop that takes builtin entries from the end of the list first
NextSubChipFromEnd(inst, i) ==
    LET j == Len(inst.sub_chips) + 1 - i IN
    IF inst.sub_chips[i].type = "builtin" /\ inst.sub_chips[j].type = "builtin"
    THEN inst.sub_chips[j] ELSE inst.sub_chips[i]

\* the sub_chips entry the second loop of simulate takes at its i-th turn
NextSubChip(inst, i) == inst.sub_chips[i]

RECURSIVE simulate(_), SimulateParts(_, _), simulate_custom_chip(_, _, _)

\* a part evaluator whose sub-instance is shared by every part of the same
\* chip_type of the enclosing chip
simulate_custom_chip_shared(inst, i, sub_chip) ==
    LET sub == sub_chip.instance
        connections == sub_chip.connections
        ins == SubInputs(inst.signals, connections, sub.chip_def.inputs, 1,
                         EmptyDict)
    IN IF ins.error # NoError
       THEN [error |-> ins.error, instance |-> inst]
       ELSE LET run == simulate(set_inputs(sub, ins.sub_inputs))
                kept == [inst EXCEPT !.sub_chips =
                            [j \in DOMAIN @ |->
                                IF @[j].chip_type = sub_chip.chip_type
                                THEN [@[j] EXCEPT !.instance = run.instance]
                                ELSE @[j]]]
            IN IF run.error # NoError
               THEN [error |-> run.error, instance |-> kept]
               ELSE [error |-> NoError,
                     instance |-> [kept EXCEPT !.signals =
                         CopyOutputs(@, connections, sub.chip_def.outputs, 1,
                                     run.outputs)]]

\* _simulate_custom_chip for the i-th entry of inst.sub_chips
simulate_custom_chip(inst, i, sub_chip) ==
    LET sub == sub_chip.instance
        connections == sub_chip.connections
        ins == SubInputs(inst.signals, connections, sub.chip_def.inputs, 1,
                         EmptyDict)
    IN IF ins.error # NoError
       THEN [error |-> ins.error, instance |-> inst]
       ELSE LET run == simulate(set_inputs(sub, ins.sub_inputs))
                kept == [inst EXCEPT !.sub_chips[i].instance = run.instance]
            IN IF run.error # NoError
               THEN [error |-> run.error, instance |-> kept]
               ELSE [error |-> NoError,
                     instance |-> [kept EXCEPT !.signals =
                         CopyOutputs(@, connections, sub.chip_def.outputs, 1,
                                     run.outputs)]]

\* one turn of the second loop of simulate
SimulateSubChip(inst, i) ==
    LET sub_chip == NextSubChip(inst, i) IN
    IF sub_chip.type = "builtin"
    THEN LET r == simulate_builtin_chip(inst.signals, sub_chip) IN
         [error |-> r.error, instance |-> [inst EXCEPT !.signals = r.signals]]
    ELSE simulate_custom_chip(inst, i, sub_chip)

\* the second loop of simulate from entry i on
SimulateParts(inst, i) ==
    IF i > Len(inst.sub_chips)
    THEN [error |-> NoError, instance |-> inst]
    ELSE LET r == SimulateSubChip(inst, i) IN
         IF r.error # NoError THEN r ELSE SimulateParts(r.instance, i + 1)

\* the end of simulate: the output map, unless a part raised (r is what the
\* loop over sub_chips left)
SimulateResult(r) ==
    IF r.error # NoError
    THEN [error |-> r.error, instance |-> r.instance, outputs |-> EmptyDict]
    ELSE [error |-> NoError, instance |-> r.instance,
          outputs |-> Outputs(r.instance)]

\* ChipInstance.simulate
simulate(inst) == SimulateResult(SimulateParts(ClearSignals(inst), 1))

-----------------------------------------------------------------------------
(* ChipSimulator.create_chip_instance and simulate_chip                    *)

create_chip_instance(st, chip_name) ==
    LET ld == load_chip_definition(st, chip_name) IN
    IF ld.error # NoError
    THEN [error |-> ld.error,
          instance |-> [chip_def |-> NoDef, signals |-> EmptyDict,
                        sub_chips |-> <<>>],
          st |-> ld.st]
    ELSE ChipInstance(ld.chip_def, ld.st, 1)

Returned(outputs) == [status |-> "returned", error |-> NoError, outputs |-> outputs]
Raised(error) == [status |-> "raised", error |-> error, outputs |-> EmptyDict]

\* simulate_chip as one call: what it returns or raises, and the simulator after
simulate_chip(st, chip_name, input_values) ==
    LET made == create_chip_instance(st, chip_name) IN
    IF made.error # NoError
    THEN [result |-> Raised(made.error), st |-> made.st]
    ELSE LET run == simulate(set_inputs(made.instance, input_values)) IN
         [result |-> IF run.error # NoError THEN Raised(run.error)
                     ELSE Returned(run.outputs),
          st |-> made.st]

-----------------------------------------------------------------------------
(* The HDL directories and the calls explored                              *)

Part(chip_type, connections) ==
    [chip_type |-> chip_type, connections |-> connections]

Chip(name, inputs, outputs, parts) ==
    [name |-> name, inputs |-> inputs, outputs |-> outputs, parts |-> parts]

\* CHIP And { IN a, b; OUT out; PARTS: Nand(a=a, b=b, out=n); Not(in=n, out=out); }
AndChip ==
    Chip("And", <<"a", "b">>, <<"out">>,
         << Part("Nand", << <<"a", "a">>, <<"b", "b">>, <<"out", "n">> >>),
            Part("Not", << <<"in", "n">>, <<"out", "out">> >>) >>)

\* CHIP Buf { IN a; OUT out; PARTS: Not(in=a, out=t); Not(in=t, out=out); }
BufChip ==
    Chip("Buf", <<"a">>, <<"out">>,
         << Part("Not", << <<"in", "a">>, <<"out", "t">> >>),
            Part("Not", << <<"in", "t">>, <<"out", "out">> >>) >>)

\* CHIP Wrap { IN a; OUT out; PARTS: Top(a=a, b=a, out=out); }
WrapChip ==
    Chip("Wrap", <<"a">>, <<"out">>,
         << Part("Top", << <<"a", "a">>, <<"b", "a">>, <<"out", "out">> >>) >>)

Gate2(chip_type, a, b, out) ==
    Part(chip_type, << <<"a", a>>, <<"b", b>>, <<"out", out>> >>)
Gate1(chip_type, in, out) ==
    Part(chip_type, << <<"in", in>>, <<"out", out>> >>)
Sub1(chip_type, a, out) ==
    Part(chip_type, << <<"a", a>>, <<"out", out>> >>)

\* the parts a PARTS list of the generated chip Top is drawn from
PartSet ==
    { Gate2("Nand", "a", "b", "n"), Gate2("Nand", "a", "b", "out"),
      Gate1("Not", "n", "out"), Gate1("Not", "out", "n"),
      Gate1("Not", "a", "n"), Gate1("Not", "b", "a"),
      Gate2("And", "a", "b", "out"), Gate2("Or", "a", "n", "out"),
      Sub1("Buf", "a", "out"), Sub1("Buf", "n", "out"),
      Sub1("Wrap", "b", "out"), Sub1("Ghost", "a", "out"),
      Part("Nand", << <<"a", "a">>, <<"out", "n">> >>) }

RECURSIVE SeqsUpTo(_, _)
SeqsUpTo(S, n) ==
    IF n = 0 THEN {<<>>}
    ELSE LET shorter == SeqsUpTo(S, n - 1) IN
         shorter \cup {Append(q, x) : q \in {r \in shorter : Len(r) = n - 1}, x \in S}

\* CHIP Top { IN a, b; OUT out; PARTS: <parts> }
TopChip(parts) == Chip("Top", <<"a", "b">>, <<"out">>, parts)

File(chip_def) == [parses |-> TRUE, chip_def |-> chip_def]
BadFile == [parses |-> FALSE, chip_def |-> NoDef]

\* a directory holding And.hdl, Buf.hdl, Wrap.hdl, Top.hdl and a Bad.hdl that
\* is not HDL; there is no Ghost.hdl and no HDL file for Nand, Not or Or
Directory(parts) ==
    [n \in {"And", "Buf", "Wrap", "Top", "Bad"} |->
        CASE n = "And"  -> File(AndChip)
          [] n = "Buf"  -> File(BufChip)
          [] n = "Wrap" -> File(WrapChip)
          [] n = "Top"  -> File(TopChip(parts))
          [] n = "Bad"  -> BadFile]

Directories == {Directory(parts) : parts \in SeqsUpTo(PartSet, MaxParts)}

\* the chip names simulate_chip is called with
CallNames == {"And", "Buf", "Wrap", "Top", "Ghost"}

\* the input maps simulate_chip is called with: every 0/1 map of a and b,
\* maps that miss b, a map with the extra key c, a map with the value 2
InputMaps ==
    [{"a", "b"} -> {0, 1}]
    \cup {[k \in {"a"} |-> v] : v \in {0, 1}}
    \cup {[k \in {"a", "b", "c"} |-> 1], [k \in {"a", "b"} |-> 2]}

-----------------------------------------------------------------------------
(* gates/builtin_gates.py: the GateLogic strategies, BuiltinGate, the      *)
(* GateFactory table and the legacy BuiltInGates wrapper                   *)

\* inputs.get(key, default)
DictGet(d, key, default) == IF key \in DOMAIN d THEN d[key] ELSE default

Out(result) == [k \in {"out"} |-> result]

NandGateLogic_compute(inputs) ==
    LET a == DictGet(inputs, "a", 0)
        b == DictGet(inputs, "b", 0)
    IN Out(IF a = 1 /\ b = 1 THEN 0 ELSE 1)

NotGateLogic_compute(inputs) ==
    LET input_val == DictGet(inputs, "in", 0)
    IN Out(IF input_val = 1 THEN 0 ELSE 1)

AndGateLogic_compute(inputs) ==
    LET a == DictGet(inputs, "a", 0)
        b == DictGet(inputs, "b", 0)
    IN Out(IF a = 1 /\ b = 1 THEN 1 ELSE 0)

OrGateLogic_compute(inputs) ==
    LET a == DictGet(inputs, "a", 0)
        b == DictGet(inputs, "b", 0)
    IN Out(IF a = 1 \/ b = 1 THEN 1 ELSE 0)

\* self.logic.compute of the gate GateFactory builds for gate_name
compute(gate_name, inputs) ==
    CASE gate_name = "Nand" -> NandGateLogic_compute(inputs)
      [] gate_name = "Not"  -> NotGateLogic_compute(inputs)
      [] gate_name = "And"  -> AndGateLogic_compute(inputs)
      [] gate_name = "Or"   -> OrGateLogic_compute(inputs)

\* GateFactory._gate_definitions[gate_name]['inputs'] and ['outputs']
gate_inputs(gate_name) ==
    IF gate_name = "Not" THEN <<"in">> ELSE <<"a", "b">>
gate_outputs(gate_name) == <<"out">>

\* GateLogic.get_truth_table: the declared rows
get_truth_table(gate_name) ==
    CASE gate_name = "Nand" ->
           { [a |-> 0, b |-> 0, out |-> 1], [a |-> 0, b |-> 1, out |-> 1],
             [a |-> 1, b |-> 0, out |-> 1], [a |-> 1, b |-> 1, out |-> 0] }
      [] gate_name = "Not" ->
           { [in |-> 0, out |-> 1], [in |-> 1, out |-> 0] }
      [] gate_name = "And" ->
           { [a |-> 0, b |-> 0, out |-> 0], [a |-> 0, b |-> 1, out |-> 0],
             [a |-> 1, b |-> 0, out |-> 0], [a |-> 1, b |-> 1, out |-> 1] }
      [] gate_name = "Or" ->
           { [a |-> 0, b |-> 0, out |-> 0], [a |-> 0, b |-> 1, out |-> 1],
             [a |-> 1, b |-> 0, out |-> 1], [a |-> 1, b |-> 1, out |-> 1] }

\* a validation of the inputs that lets every map pass
validate_inputs_none(gate_name, input_values) == NoError

\* BuiltinGate._validate_inputs: the error it raises, NoError when it passes
validate_inputs(gate_name, input_values) ==
    IF \E i \in 1..Len(gate_inputs(gate_name)) :
           gate_inputs(gate_name)[i] \notin DOMAIN input_values
    THEN Raise("ValueError", "Missing required input")
    ELSE IF \E pin_name \in DOMAIN input_values :
                /\ InList(pin_name, gate_inputs(gate_name))
                /\ input_values[pin_name] \notin {0, 1}
    THEN Raise("ValueError", "Invalid input value")
    ELSE NoError

\* BuiltinGate._validate_outputs
validate_outputs(gate_name, outputs) ==
    IF \E i \in 1..Len(gate_outputs(gate_name)) :
           gate_outputs(gate_name)[i] \notin DOMAIN outputs
    THEN Raise("ValueError", "Gate logic failed to provide output")
    ELSE IF \E pin_name \in DOMAIN outputs : outputs[pin_name] \notin {0, 1}
    THEN Raise("ValueError", "Invalid output value")
    ELSE NoError

\* BuiltinGate.evaluate
evaluate(gate_name, input_values) ==
    IF validate_inputs(gate_name, input_values) # NoError
    THEN Raised(validate_inputs(gate_name, input_values))
    ELSE LET outputs == compute(gate_name, input_values) IN
         IF validate_outputs(gate_name, outputs) # NoError
         THEN Raised(validate_outputs(gate_name, outputs))
         ELSE Returned(outputs)

\* gates.BuiltInGates.nand / not_gate / and_gate / or_gate: the positional
\* operands packed into a dict, evaluate, then result['out']
legacy_gate(gate_name, a, b) ==
    LET result == evaluate(gate_name,
                      IF gate_name = "Not" THEN [k \in {"in"} |-> a]
                      ELSE [k \in {"a", "b"} |-> IF k = "a" THEN a ELSE b])
    IN IF result.status = "raised" THEN result
       ELSE Returned(Out(result.outputs["out"]))

-----------------------------------------------------------------------------
(* State machine of one ChipSimulator                                      *)

NoCall == [chip_name |-> "", input_values |-> EmptyDict]
NoInstance == [chip_def |-> NoDef, signals |-> EmptyDict, sub_chips |-> <<>>]
NoOutcome == [status |-> "none", error |-> NoError, outputs |-> EmptyDict]
NoGateOut == [simulator |-> NoOutcome, compute |-> NoOutcome,
              evaluate |-> NoOutcome, legacy |-> NoOutcome]

\* ChipSimulator.__init__
NewSimulator ==
    /\ chip_cache = [k \in {} |-> NoDef]
    /\ parse_count = [k \in {} |-> 0]
    /\ load_names = {}

NoRunningCall ==
    /\ phase = "idle"
    /\ call = NoCall
    /\ instance = NoInstance
    /\ pc = 0
    /\ evaluated = <<>>
    /\ outcome = NoOutcome

NoGate ==
    /\ gate = ""
    /\ gate_in = EmptyDict
    /\ gate_out = NoGateOut

\* the callers of simulate_chip that run concurrently
Threads == {"t1", "t2"}

NoThread == [at |-> "idle", chip_name |-> "", input_values |-> EmptyDict,
             name |-> "", chip_def |-> NoDef, stack |-> <<>>,
             walk |-> <<>>, visited |-> <<>>, result |-> NoOutcome]

NoThreads == threads = [t \in Threads |-> NoThread]

\* HDL text is a sequence of characters, a token is <<kind, value>> with the
\* value a sequence of characters, and the names of a parsed definition are
\* token values
NoTokens == [status |-> "none", tokens |-> <<>>, skipped |-> <<>>]
NoChip == [name |-> <<>>, inputs |-> <<>>, outputs |-> <<>>, parts |-> <<>>]
NoParsed == [status |-> "none", chip_def |-> NoChip, position |-> 0,
             expected |-> "", found |-> <<>>]

NoParser ==
    /\ text = <<>>
    /\ tokens = NoTokens
    /\ parse_out = NoParsed

-----------------------------------------------------------------------------
(* The objects of models/ and the test runner before they are built        *)

\* no SimulationState has been constructed
NoState ==
    /\ sim_state = [input_values |-> EmptyDict, output_values |-> EmptyDict,
                    internal_signals |-> EmptyDict]
    /\ state_call = [method |-> "", name |-> "", value |-> None,
                     status |-> "none", error |-> NoError, returned |-> None]

\* no ChipDefinition constructor call
NoDefinition ==
    /\ definition_args = [name |-> <<>>, inputs |-> <<>>, outputs |-> <<>>]
    /\ definition_out = [status |-> "none", error |-> NoError,
                         chip_def |-> NoChip]

\* no TestResult and no TestReport
NoReport ==
    /\ results = <<>>
    /\ report = [test_results |-> <<>>]
    /\ add_calls = 0

NoSuite == [chip_name |-> "", test_cases |-> <<>>]
NoSummary ==
    [total |-> None, passed |-> None, failed |-> None, pass_rate |-> <<0, 1>>]

\* no run_test_file call
NoTester ==
    /\ test_suite = NoSuite
    /\ test_results = <<>>
    /\ passed_count = 0
    /\ summary_stats = NoSummary

NoModels == NoState /\ NoDefinition /\ NoReport /\ NoTester

Init ==
    /\ files \in Directories
    /\ NewSimulator
    /\ NoRunningCall
    /\ history = <<>>
    /\ NoGate
    /\ NoThreads
    /\ NoModels
    /\ NoParser

SimState == [chip_cache |-> chip_cache, parse_count |-> parse_count,
             load_names |-> load_names]

SetSimState(st) ==
    /\ chip_cache' = st.chip_cache
    /\ parse_count' = st.parse_count
    /\ load_names' = st.load_names

\* simulate_chip up to the call of simulate: create_chip_instance, set_inputs
SimulateChipEnter(chip_name, input_values) ==
    /\ phase = "idle"
    /\ LET made == create_chip_instance(SimState, chip_name) IN
       /\ SetSimState(made.st)
       /\ call' = [chip_name |-> chip_name, input_values |-> input_values]
       /\ IF made.error # NoError
          THEN /\ phase' = "done"
               /\ outcome' = Raised(made.error)
               /\ instance' = instance
          ELSE /\ phase' = "simulate"
               /\ outcome' = outcome
               /\ instance' = set_inputs(made.instance, input_values)
    /\ UNCHANGED <<files, pc, evaluated, history, gateVars, threadVars, parserVars, modelVars>>

\* simulate: the loop that clears the signals that are not inputs
SimulateClear ==
    /\ phase = "simulate"
    /\ instance' = ClearSignals(instance)
    /\ pc' = 1
    /\ phase' = "parts"
    /\ UNCHANGED <<files, simVars, call, evaluated, outcome, history, gateVars, threadVars, parserVars, modelVars>>

\* simulate: one turn of the loop over self.sub_chips
SimulatePart ==
    /\ phase = "parts"
    /\ pc <= Len(instance.sub_chips)
    /\ LET r == SimulateSubChip(instance, pc)
           taken == NextSubChip(instance, pc)
       IN /\ instance' = r.instance
          /\ evaluated' = Append(evaluated,
                 Part(taken.chip_type, taken.connections))
          /\ IF r.error # NoError
             THEN /\ phase' = "done"
                  /\ outcome' = Raised(r.error)
                  /\ pc' = pc
             ELSE /\ phase' = "parts"
                  /\ outcome' = outcome
                  /\ pc' = pc + 1
    /\ UNCHANGED <<files, simVars, call, history, gateVars, threadVars, parserVars, modelVars>>

\* simulate: the output map is built and returned to simulate_chip's caller
SimulateReturn ==
    /\ phase = "parts"
    /\ pc > Len(instance.sub_chips)
    /\ outcome' = Returned(Outputs(instance))
    /\ phase' = "done"
    /\ UNCHANGED <<files, simVars, call, instance, pc, evaluated, history,
                   gateVars, threadVars, parserVars, modelVars>>

Next ==
    \/ \E chip_name \in CallNames, input_values \in InputMaps :
           SimulateChipEnter(chip_name, input_values)
    \/ SimulateClear
    \/ SimulatePart
    \/ SimulateReturn

Spec == Init /\ [][Next]_vars

-----------------------------------------------------------------------------
(* A sequence of simulate_chip calls on one ChipSimulator                  *)

\* PARTS lists of Top in the directories the call sequences run in
TopChoices ==
    { <<>>,
      << Gate2("Nand", "a", "b", "n"), Gate1("Not", "n", "out") >>,
      << Gate1("Not", "n", "out"), Gate2("Nand", "a", "b", "n") >>,
      << Gate1("Not", "out", "n"), Gate2("Nand", "a", "b", "out") >>,
      << Sub1("Buf", "a", "n"), Sub1("Buf", "n", "out") >>,
      << Sub1("Buf", "a", "out"), Sub1("Ghost", "a", "out") >>,
      << Gate2("Or", "a", "b", "out"), Sub1("Wrap", "b", "out") >> }

CallDirectories == {Directory(parts) : parts \in TopChoices}

SeqCallNames == {"And", "Top", "Wrap", "Ghost", "Bad"}

SeqInputMaps == {[k \in {"a", "b"} |-> IF k = "a" THEN 0 ELSE 1],
                 [k \in {"a", "b"} |-> 1]}

InitCalls ==
    /\ files \in CallDirectories
    /\ NewSimulator
    /\ NoRunningCall
    /\ history = <<>>
    /\ NoGate
    /\ NoThreads
    /\ NoModels
    /\ NoParser

\* one whole simulate_chip call
SimulateChipCall(chip_name, input_values) ==
    /\ Len(history) < MaxCalls
    /\ LET done == simulate_chip(SimState, chip_name, input_values) IN
       /\ SetSimState(done.st)
       /\ history' = Append(history,
              [chip_name |-> chip_name, input_values |-> input_values,
               result |-> done.result])
    /\ UNCHANGED <<files, callVars, gateVars, threadVars, parserVars, modelVars>>

NextCalls ==
    \E chip_name \in SeqCallNames, input_values \in SeqInputMaps :
        SimulateChipCall(chip_name, input_values)

SpecCalls == InitCalls /\ [][NextCalls]_vars

-----------------------------------------------------------------------------
(* The builtin gate implementations applied to one input map               *)

GateValues == {0, 1, 2, None}

GateInputMaps ==
    UNION {[keys -> GateValues] : keys \in SUBSET {"a", "b", "in"}}

InitGates ==
    /\ files \in {Directory(<<>>)}
    /\ NewSimulator
    /\ NoRunningCall
    /\ history = <<>>
    /\ gate \in built_in_chips
    /\ gate_in \in GateInputMaps
    /\ gate_out = NoGateOut
    /\ NoThreads
    /\ NoModels
    /\ NoParser

\* the map carries exactly the gate's operands, so it can be passed positionally
Positional == DOMAIN gate_in = ListSet(gate_inputs(gate))

FirstOperand == gate_in[gate_inputs(gate)[1]]
SecondOperand == gate_in[gate_inputs(gate)[Len(gate_inputs(gate))]]

\* chip_simulator.BuiltInGates.<gate>(a, b)
CallSimulatorGate ==
    /\ gate_out.simulator.status = "none"
    /\ Positional
    /\ gate_out' = [gate_out EXCEPT !.simulator =
           Returned(Out(gate_func(gate, FirstOperand, SecondOperand)))]
    /\ UNCHANGED <<files, simVars, callVars, history, gate, gate_in, threadVars,
                   parserVars, modelVars>>

\* GateLogic.compute(inputs)
CallCompute ==
    /\ gate_out.compute.status = "none"
    /\ gate_out' = [gate_out EXCEPT !.compute = Returned(compute(gate, gate_in))]
    /\ UNCHANGED <<files, simVars, callVars, history, gate, gate_in, threadVars,
                   parserVars, modelVars>>

\* BuiltinGate.evaluate(input_values)
CallEvaluate ==
    /\ gate_out.evaluate.status = "none"
    /\ gate_out' = [gate_out EXCEPT !.evaluate = evaluate(gate, gate_in)]
    /\ UNCHANGED <<files, simVars, callVars, history, gate, gate_in, threadVars,
                   parserVars, modelVars>>

\* gates.BuiltInGates.<gate>(a, b)
CallLegacyGate ==
    /\ gate_out.legacy.status = "none"
    /\ Positional
    /\ gate_out' = [gate_out EXCEPT !.legacy =
           legacy_gate(gate, FirstOperand, SecondOperand)]
    /\ UNCHANGED <<files, simVars, callVars, history, gate, gate_in, threadVars,
                   parserVars, modelVars>>

NextGates ==
    \/ CallSimulatorGate
    \/ CallCompute
    \/ CallEvaluate
    \/ CallLegacyGate

SpecGates == InitGates /\ [][NextGates]_vars

-----------------------------------------------------------------------------
(* Properties                                                              *)

\* the definition the directory holds for the chip of the running call
CalledDef == files[call.chip_name].chip_def

\* simulate is walking the parts, or has finished walking them
Walking == phase = "parts" \/ (phase = "done" /\ instance # NoInstance)

\* the chip of the running call cut down to its first k parts
FirstParts(k) == [CalledDef EXCEPT !.parts = SubSeq(@, 1, k)]

\* the signal table a fresh instance of chip_def holds after a whole simulate
\* with the call's inputs
TableAfter(chip_def) ==
    SimulateParts(ClearSignals(set_inputs(
        ChipInstance(chip_def, SimState, 1).instance, call.input_values)),
        1).instance.signals

\* C1: simulate evaluates the parts strictly in PARTS declaration order: the
\* entries evaluated so far are the first parts of the chip's PARTS list, in
\* that order, and the signal table they leave is the table the chip cut down
\* to those parts leaves, so no part listed later has influenced them.
C1_DeclarationOrder ==
    Walking =>
        /\ Len(evaluated) <= Len(CalledDef.parts)
        /\ \A i \in 1..Len(evaluated) : evaluated[i] = CalledDef.parts[i]
        /\ phase = "parts" => Len(evaluated) = pc - 1
        /\ instance.signals = TableAfter(FirstParts(Len(evaluated)))

MisorderedParts ==
    << Gate1("Not", "n", "out"), Gate2("Nand", "a", "b", "n") >>

\* C1 witness: the mis-ordered And (Not listed before the Nand that feeds it)
\* is walked in the listed order, so its first part finds n unwritten.
C1_Witness ==
    /\ phase = "done"
    /\ call.chip_name = "Top"
    /\ CalledDef.parts = MisorderedParts
    /\ evaluated = << Gate1("Not", "n", "out") >>
    /\ outcome.status = "raised"

BinaryAB == [{"a", "b"} -> {0, 1}]

\* C2: for the chip And = Nand(a=a,b=b,out=n); Not(in=n,out=out) simulate_chip
\* returns out = Not(Nand(a,b)) for every 0/1 pair, which is the builtin
\* And(a,b): 1 exactly when both inputs are 1.
C2_AndComposition ==
    (phase = "done" /\ call.chip_name = "And" /\ call.input_values \in BinaryAB) =>
        LET a == call.input_values["a"]
            b == call.input_values["b"]
        IN /\ CalledDef = AndChip
           /\ outcome.status = "returned"
           /\ DOMAIN outcome.outputs = {"out"}
           /\ outcome.outputs["out"] = (IF a = 1 /\ b = 1 THEN 1 ELSE 0)
           /\ outcome.outputs["out"] = not_gate(nand(a, b))
           /\ outcome.outputs["out"] = and_gate(a, b)

\* C2 witness: And simulated with a = 1, b = 1 has returned out = 1.
C2_Witness ==
    /\ phase = "done"
    /\ call.chip_name = "And"
    /\ call.input_values = [k \in {"a", "b"} |-> 1]
    /\ outcome = Returned(Out(1))
    /\ Len(evaluated) = 2

\* the value section 4.3 of the specification defines for each gate
DefiningValue(gate_name, x, y) ==
    CASE gate_name = "Nand" -> IF x = 1 /\ y = 1 THEN 0 ELSE 1
      [] gate_name = "Not"  -> IF x = 0 THEN 1 ELSE 0
      [] gate_name = "And"  -> IF x = 1 /\ y = 1 THEN 1 ELSE 0
      [] gate_name = "Or"   -> IF x = 1 \/ y = 1 THEN 1 ELSE 0

GateImplementations == {"simulator", "compute", "evaluate", "legacy"}

\* C3: on every 0/1 input combination each of Nand, Not, And, Or has exactly
\* one declared truth-table row, that row carries the gate's defining value,
\* and chip_simulator.BuiltInGates, GateLogic.compute, BuiltinGate.evaluate
\* and the legacy wrapper each return that row's output.
C3_TruthTables ==
    (Positional /\ \A p \in DOMAIN gate_in : gate_in[p] \in {0, 1}) =>
        LET rows == {row \in get_truth_table(gate) :
                        \A p \in DOMAIN gate_in : row[p] = gate_in[p]}
        IN /\ Cardinality(rows) = 1
           /\ \A row \in rows :
                /\ row.out = DefiningValue(gate, FirstOperand, SecondOperand)
                /\ \A impl \in GateImplementations :
                     \/ gate_out[impl].status = "none"
                     \/ gate_out[impl] = Returned(Out(row.out))

\* C3 witness: Or of (1, 1) has been computed by all four implementations.
C3_Witness ==
    /\ gate = "Or"
    /\ gate_in = [k \in {"a", "b"} |-> 1]
    /\ \A impl \in GateImplementations : gate_out[impl] = Returned(Out(1))

\* the sub_chips entry the next SimulatePart step evaluates
Taken == instance.sub_chips[pc]

\* the operand pins of a builtin gate
OperandPins(chip_type) == IF chip_type = "Not" THEN {"in"} ELSE {"a", "b"}

\* the operand pins of Taken whose signal has no entry in the signal table
AbsentOperands ==
    {p \in OperandPins(Taken.chip_type) :
        ConnGet(Taken.connections, p) \notin DOMAIN instance.signals}

\* the operand pins of Taken whose signal is in the table and holds None
NoneOperands ==
    {p \in OperandPins(Taken.chip_type) :
        /\ ConnGet(Taken.connections, p) \in DOMAIN instance.signals
        /\ instance.signals[ConnGet(Taken.connections, p)] = None}

\* simulate is about to evaluate a builtin part that binds all its operand
\* pins, at least one of them to a signal that is unset
BuiltinReadsUnset ==
    /\ phase = "parts"
    /\ pc <= Len(instance.sub_chips)
    /\ Taken.type = "builtin"
    /\ \A p \in OperandPins(Taken.chip_type) : ConnHas(Taken.connections, p)
    /\ AbsentOperands \cup NoneOperands # {}

\* the input map of the running call is not a 0/1 map of the chip's input pins
InvalidInputMap ==
    \/ DOMAIN call.input_values # ListSet(CalledDef.inputs)
    \/ \E k \in DOMAIN call.input_values : call.input_values[k] \notin {0, 1}

WrittenSignals ==
    {ConnGet(evaluated[i].connections, "out") :
        i \in {j \in 1..Len(evaluated) : ConnHas(evaluated[j].connections, "out")}}

References(S) ==
    S \cup UNION { {files[n].chip_def.parts[i].chip_type :
                        i \in {j \in 1..Len(files[n].chip_def.parts) :
                                 ~IsBuiltinPart(files[n].chip_def.parts[j])}} :
                   n \in {m \in S \cap DOMAIN files : files[m].parses} }

RECURSIVE Referenced(_)
\* the chip names the called chip references at any nesting depth
Referenced(S) == IF References(S) = S THEN S ELSE Referenced(References(S))

C8_Idempotent ==
    \A i, j \in 1..Len(history) :
        (/\ history[i].chip_name = history[j].chip_name
         /\ history[i].input_values = history[j].input_values)
        => history[i].result = history[j].result

\* C8 witness: Top built from two Buf parts was simulated, then And, then Top
\* again with the first call's inputs, and both Top calls returned out = 1.
C8_Witness ==
    /\ Len(history) = 3
    /\ files["Top"].chip_def.parts =
           << Sub1("Buf", "a", "n"), Sub1("Buf", "n", "out") >>
    /\ history[1].chip_name = "Top"
    /\ history[2].chip_name = "And"
    /\ history[3].chip_name = "Top"
    /\ history[1].input_values = [k \in {"a", "b"} |-> 1]
    /\ history[3].input_values = history[1].input_values
    /\ history[1].result = Returned(Out(1))
    /\ history[3].result = Returned(Out(1))

\* C9: within one ChipSimulator every chip name that has been loaded
\* successfully has been parsed exactly once, however often it was referenced
\* since, and its cache entry is the definition that parse produced.
C9_ParsedOnce ==
    \A n \in DOMAIN chip_cache :
        /\ Count(parse_count, n) = 1
        /\ n \in DOMAIN files
        /\ chip_cache[n] = files[n].chip_def

\* C9 witness: Top, whose two sibling parts are both Buf, was simulated twice;
\* Top and Buf were each parsed once.
C9_Witness ==
    /\ Len(history) = 2
    /\ files["Top"].chip_def.parts =
           << Sub1("Buf", "a", "n"), Sub1("Buf", "n", "out") >>
    /\ history[1].chip_name = "Top"
    /\ history[2].chip_name = "Top"
    /\ history[2].result.status = "returned"
    /\ DOMAIN chip_cache = {"Top", "Buf"}
    /\ parse_count["Top"] = 1
    /\ parse_count["Buf"] = 1

\* an instance of the called chip exists
Instantiated == phase \in {"simulate", "parts"} \/ (phase = "done" /\ instance # NoInstance)

\* C10: a part is a primitive leaf exactly when its chip_type is Nand, Not,
\* And or Or; every other part holds a nested instance of the definition
\* loaded under its chip_type. No definition is loaded for a builtin part even
\* when an HDL file of that name exists, so a chip whose parts are all
\* builtins is instantiated with no load but that of the chip itself.
C10_BuiltinLeaves ==
    /\ phase # "idle" =>
          \A n \in load_names \cap {"Nand", "Not", "And", "Or"} : n = call.chip_name
    /\ Instantiated =>
        /\ Len(instance.sub_chips) = Len(CalledDef.parts)
        /\ \A i \in 1..Len(CalledDef.parts) :
             LET part == CalledDef.parts[i]
                 sub == instance.sub_chips[i]
             IN IF part.chip_type \in {"Nand", "Not", "And", "Or"}
                THEN sub = [type |-> "builtin", chip_type |-> part.chip_type,
                            connections |-> part.connections]
                ELSE /\ sub.type = "custom"
                     /\ part.chip_type \in load_names
                     /\ sub.instance.chip_def = files[part.chip_type].chip_def
        /\ (\A i \in 1..Len(CalledDef.parts) :
                CalledDef.parts[i].chip_type \in {"Nand", "Not", "And", "Or"})
           => load_names = {call.chip_name}

\* C10 witness: Top = And(a=a,b=b,out=out); Nand(a=a,b=b,out=n) has been
\* instantiated with only Top loaded, although the directory holds And.hdl.
C10_Witness ==
    /\ phase = "simulate"
    /\ call.chip_name = "Top"
    /\ CalledDef.parts =
           << Gate2("And", "a", "b", "out"), Gate2("Nand", "a", "b", "n") >>
    /\ "And" \in DOMAIN files
    /\ load_names = {"Top"}
    /\ DOMAIN chip_cache = {"Top"}

RECURSIVE Fresh(_)
\* inst and every instance below it hold the signal table __init__ leaves
Fresh(inst) ==
    /\ inst.signals = InitialSignals(inst.chip_def)
    /\ \A i \in 1..Len(inst.sub_chips) :
           inst.sub_chips[i].type = "custom" => Fresh(inst.sub_chips[i].instance)

-----------------------------------------------------------------------------
(* Concurrent simulate_chip calls on one ChipSimulator.  Each thread runs   *)
(* simulate_chip; the steps of load_chip_definition that read or write the  *)
(* shared chip_cache are separate steps, what a thread does on objects of   *)
(* its own (the instance tree it is building) is part of the step before.   *)
(* A thread keeps the ChipInstance.__init__ calls that are under way as a   *)
(* stack of frames, outermost first.                                        *)

\* the directories and arguments of the concurrent calls
ThreadDirectories == CallDirectories
ThreadCallNames == {"And", "Top", "Wrap", "Ghost", "Bad"}
ThreadInputMaps == SeqInputMaps

\* ChipInstance.__init__ entered for the definition loaded under `name`
Frame(name, chip_def) ==
    [name |-> name, chip_def |-> chip_def, i |-> 1, sub_chips |-> <<>>]

\* the instance a frame has built when its loop over the parts has ended
FrameInstance(frame) ==
    [chip_def |-> frame.chip_def, signals |-> InitialSignals(frame.chip_def),
     sub_chips |-> frame.sub_chips]

\* a return that drops the finished sub-instance and leaves the loop of the
\* enclosing __init__ at the same part
ReturnToParentAgain(below, inst) == below

\* the finished sub-instance is appended to the enclosing frame's sub_chips
\* and its loop moves to the next part
ReturnToParent(below, inst) ==
    LET part == below.chip_def.parts[below.i] IN
    [below EXCEPT !.i = @ + 1,
                  !.sub_chips = Append(@, [type |-> "custom",
                                           chip_type |-> part.chip_type,
                                           connections |-> part.connections,
                                           instance |-> inst])]

RECURSIVE RunInstantiate(_)
\* _instantiate_parts carried on from the innermost frame until a definition
\* has to be loaded ("load") or the outermost __init__ returns ("built")
RunInstantiate(stack) ==
    LET top == stack[Len(stack)] IN
    IF top.i > Len(top.chip_def.parts)
    THEN IF Len(stack) = 1
         THEN [kind |-> "built", name |-> "", stack |-> stack]
         ELSE LET below == ReturnToParent(stack[Len(stack) - 1],
                                          FrameInstance(top))
              IN RunInstantiate(
                     Append(SubSeq(stack, 1, Len(stack) - 2), below))
    ELSE LET part == top.chip_def.parts[top.i] IN
         IF IsBuiltinPart(part)
         THEN RunInstantiate([stack EXCEPT ![Len(stack)] =
                  [top EXCEPT !.i = @ + 1,
                              !.sub_chips = Append(@,
                                  [type |-> "builtin",
                                   chip_type |-> part.chip_type,
                                   connections |-> part.connections])]])
         ELSE [kind |-> "load", name |-> part.chip_type, stack |-> stack]

\* a cache read that sees an entry whose parts are not filled in yet
CachedDefinitionUnfilled(cache, name) == [cache[name] EXCEPT !.parts = <<>>]

\* return self.chip_cache[chip_name]
CachedDefinition(cache, name) == cache[name]

\* what a thread does after load_chip_definition returned chip_def for
\* th.name: ChipInstance(chip_def, self) and the instantiation up to the next
\* load, or RecursionError when the nesting has exhausted the interpreter's
\* stack
AfterLoad(th, chip_def) ==
    IF Len(th.stack) + 1 > MaxDepth
    THEN [th EXCEPT !.at = "done",
                    !.result = Raised(Raise("RecursionError",
                                   "maximum recursion depth exceeded"))]
    ELSE LET run == RunInstantiate(Append(th.stack, Frame(th.name, chip_def)))
         IN IF run.kind = "load"
            THEN [th EXCEPT !.at = "check", !.name = run.name,
                            !.stack = run.stack]
            ELSE [th EXCEPT !.at = "simulate", !.name = "",
                            !.stack = run.stack]

\* simulate entered for inst: the clearing loop has run and the loop over
\* self.sub_chips is at its first entry
WalkFrame(inst) == [inst |-> ClearSignals(inst), i |-> 1]

\* the position of the part under evaluation: its index in every enclosing
\* instance, outermost first
WalkPath(walk) == [k \in 1..Len(walk) |-> walk[k].i]

RECURSIVE Unwind(_)
\* every simulate whose loop has ended returns: the outermost one returns the
\* output map to simulate_chip, a nested one returns to _simulate_custom_chip,
\* which copies the outputs into the enclosing signal table and lets the
\* enclosing loop take its next entry
Unwind(walk) ==
    LET top == walk[Len(walk)] IN
    IF top.i <= Len(top.inst.sub_chips)
    THEN [kind |-> "walking", walk |-> walk, outputs |-> EmptyDict,
          error |-> NoError]
    ELSE IF Len(walk) = 1
    THEN [kind |-> "returned", walk |-> walk, outputs |-> Outputs(top.inst),
          error |-> NoError]
    ELSE LET below == walk[Len(walk) - 1]
             sub_chip == below.inst.sub_chips[below.i]
             kept == [below.inst EXCEPT !.sub_chips[below.i].instance = top.inst]
             copied == [kept EXCEPT !.signals =
                           CopyOutputs(@, sub_chip.connections,
                                       top.inst.chip_def.outputs, 1,
                                       Outputs(top.inst))]
         IN Unwind(Append(SubSeq(walk, 1, Len(walk) - 2),
                          [inst |-> copied, i |-> below.i + 1]))

\* one turn of simulate's loop in the innermost instance under simulation
EvaluateStep(walk) ==
    LET top == walk[Len(walk)]
        sub_chip == NextSubChip(top.inst, top.i)
    IN IF sub_chip.type = "builtin"
       THEN LET r == simulate_builtin_chip(top.inst.signals, sub_chip) IN
            IF r.error # NoError
            THEN [kind |-> "raised", walk |-> walk, outputs |-> EmptyDict,
                  error |-> r.error]
            ELSE Unwind([walk EXCEPT ![Len(walk)] =
                     [inst |-> [top.inst EXCEPT !.signals = r.signals],
                      i |-> top.i + 1]])
       ELSE LET ins == SubInputs(top.inst.signals, sub_chip.connections,
                                 sub_chip.instance.chip_def.inputs, 1, EmptyDict)
            IN IF ins.error # NoError
               THEN [kind |-> "raised", walk |-> walk, outputs |-> EmptyDict,
                     error |-> ins.error]
               ELSE Unwind(Append(walk, WalkFrame(
                        set_inputs(sub_chip.instance, ins.sub_inputs))))

InitThreads ==
    /\ files \in ThreadDirectories
    /\ NewSimulator
    /\ NoRunningCall
    /\ history = <<>>
    /\ NoGate
    /\ NoThreads
    /\ NoModels
    /\ NoParser

\* simulate_chip is called: create_chip_instance calls load_chip_definition
ThreadCall(t, chip_name, input_values) ==
    /\ threads[t].at = "idle"
    /\ threads' = [threads EXCEPT ![t] =
           [@ EXCEPT !.at = "check", !.chip_name = chip_name,
                     !.input_values = input_values, !.name = chip_name]]
    /\ UNCHANGED <<files, simVars, callVars, history, gateVars, parserVars, modelVars>>

\* load_chip_definition: if chip_name in self.chip_cache: return the entry
LoadCheck(t) ==
    /\ threads[t].at = "check"
    /\ load_names' = load_names \cup {threads[t].name}
    /\ threads' = [threads EXCEPT ![t] =
           IF threads[t].name \in DOMAIN chip_cache
           THEN AfterLoad(@, CachedDefinition(chip_cache, threads[t].name))
           ELSE [@ EXCEPT !.at = "parse"]]
    /\ UNCHANGED <<files, chip_cache, parse_count, callVars, history,
                   gateVars, parserVars, modelVars>>

\* load_chip_definition: chip_def = parse_hdl_file(hdl_file)
LoadParse(t) ==
    /\ threads[t].at = "parse"
    /\ LET done == parse_hdl_file(threads[t].name) IN
       /\ parse_count' = DictSet(parse_count, threads[t].name,
                                 Count(parse_count, threads[t].name) + 1)
       /\ threads' = [threads EXCEPT ![t] =
              IF done.error # NoError
              THEN [@ EXCEPT !.at = "done", !.result = Raised(done.error)]
              ELSE [@ EXCEPT !.at = "publish", !.chip_def = done.chip_def]]
    /\ UNCHANGED <<files, chip_cache, load_names, callVars, history,
                   gateVars, parserVars, modelVars>>

\* load_chip_definition: self.chip_cache[chip_name] = chip_def; return chip_def
LoadPublish(t) ==
    /\ threads[t].at = "publish"
    /\ chip_cache' = DictSet(chip_cache, threads[t].name, threads[t].chip_def)
    /\ threads' = [threads EXCEPT ![t] =
           AfterLoad([@ EXCEPT !.chip_def = NoDef], threads[t].chip_def)]
    /\ UNCHANGED <<files, parse_count, load_names, callVars, history,
                   gateVars, parserVars, modelVars>>

\* simulate_chip: chip_instance.set_inputs(input_values), and simulate up to
\* its loop over the parts
ThreadSimulate(t) ==
    /\ threads[t].at = "simulate"
    /\ LET run == Unwind(<< WalkFrame(set_inputs(
                      FrameInstance(threads[t].stack[1]),
                      threads[t].input_values)) >>)
       IN threads' = [threads EXCEPT ![t] =
              IF run.kind = "returned"
              THEN [@ EXCEPT !.at = "done", !.walk = run.walk,
                             !.result = Returned(run.outputs)]
              ELSE [@ EXCEPT !.at = "walk", !.walk = run.walk]]
    /\ UNCHANGED <<files, simVars, callVars, history, gateVars, parserVars, modelVars>>

\* simulate: one turn of the loop over self.sub_chips, in the instance the
\* thread has reached
ThreadEvaluate(t) ==
    /\ threads[t].at = "walk"
    /\ LET run == EvaluateStep(threads[t].walk)
           seen == Append(threads[t].visited, WalkPath(threads[t].walk))
       IN threads' = [threads EXCEPT ![t] =
              CASE run.kind = "raised" ->
                     [@ EXCEPT !.at = "done", !.visited = seen,
                               !.result = Raised(run.error)]
                [] run.kind = "returned" ->
                     [@ EXCEPT !.at = "done", !.visited = seen,
                               !.walk = run.walk,
                               !.result = Returned(run.outputs)]
                [] run.kind = "walking" ->
                     [@ EXCEPT !.visited = seen, !.walk = run.walk]]
    /\ UNCHANGED <<files, simVars, callVars, history, gateVars, parserVars, modelVars>>

\* the steps of a simulate_chip call that is under way in thread t
RunThread(t) ==
    \/ LoadCheck(t)
    \/ LoadParse(t)
    \/ LoadPublish(t)
    \/ ThreadSimulate(t)
    \/ ThreadEvaluate(t)

NextThreads ==
    \E t \in Threads :
        \/ \E chip_name \in ThreadCallNames, input_values \in ThreadInputMaps :
               ThreadCall(t, chip_name, input_values)
        \/ RunThread(t)

SpecThreads == InitThreads /\ [][NextThreads]_vars

\* one caller: a single simulate_chip call that, once made, runs on
NextOneCall ==
    \/ \E chip_name \in ThreadCallNames, input_values \in ThreadInputMaps :
           ThreadCall("t1", chip_name, input_values)
    \/ RunThread("t1")

SpecOneCall == InitThreads /\ [][NextOneCall]_vars /\ WF_vars(RunThread("t1"))

-----------------------------------------------------------------------------
(* Properties of concurrent calls                                          *)

\* a ChipSimulator nothing has been loaded into
FreshSimulator ==
    [chip_cache |-> [k \in {} |-> NoDef], parse_count |-> [k \in {} |-> 0],
     load_names |-> {}]

\* what the call of thread t returns or raises when it runs alone
Alone(t) ==
    simulate_chip(FreshSimulator, threads[t].chip_name,
                  threads[t].input_values).result

\* C12: in every interleaving of two simulate_chip calls on one ChipSimulator,
\* on different chips or on the same chip, each call returns or raises exactly
\* what it returns or raises when it runs alone.
C12_NoInterference ==
    \A t \in Threads :
        threads[t].at = "done" => threads[t].result = Alone(t)

\* C12 witness: both threads simulated Top = Buf; Buf with different inputs,
\* both read and missed the cache for Top before either published it, and
\* each has returned its own output.
C12_Witness ==
    /\ files["Top"].chip_def.parts =
           << Sub1("Buf", "a", "n"), Sub1("Buf", "n", "out") >>
    /\ \A t \in Threads : threads[t].at = "done" /\ threads[t].chip_name = "Top"
    /\ threads["t1"].result = Returned(Out(0))
    /\ threads["t2"].result = Returned(Out(1))
    /\ parse_count["Top"] = 2

\* C13 as claimed: the cache has one writer per key: no published name has
\* been parsed more than once, and no thread is about to publish a definition
\* under a name that is already published.
C13_Original ==
    /\ \A n \in DOMAIN chip_cache : Count(parse_count, n) <= 1
    /\ \A t \in Threads :
           threads[t].at = "publish" => threads[t].name \notin DOMAIN chip_cache

\* the chip names on the chain of instantiations a thread has under way
Chain(t) == [k \in 1..Len(threads[t].stack) |-> threads[t].stack[k].name]

\* C14 as claimed: the chain of instantiations under way never holds a chip
\* name twice, because a name that comes up again fails the call at once, and
\* no call ends by exhausting the interpreter's stack.
C14_Original ==
    \A t \in Threads :
        /\ \A j, k \in 1..Len(Chain(t)) : Chain(t)[j] = Chain(t)[k] => j = k
        /\ threads[t].result.error.kind # "RecursionError"

\* the chip names the parts of the definition in <n>.hdl reference
PartRefs(n) ==
    IF n \in DOMAIN files /\ files[n].parses
    THEN {files[n].chip_def.parts[i].chip_type :
             i \in {j \in 1..Len(files[n].chip_def.parts) :
                      ~IsBuiltinPart(files[n].chip_def.parts[j])}}
    ELSE {}

\* some chip the chip n references, or n itself, references itself through
\* its parts
Cyclic(n) == \E m \in Referenced({n}) : m \in Referenced(PartRefs(m))

RECURSIVE NestingDepth(_)
\* the nesting depth of the chip references below n (n not cyclic): a chip of
\* builtin parts has depth 1, a name without a definition depth 0
NestingDepth(n) ==
    IF n \notin DOMAIN files \/ ~files[n].parses THEN 0
    ELSE LET below == {NestingDepth(m) : m \in PartRefs(n)} IN
         1 + (IF below = {} THEN 0
              ELSE CHOOSE d \in below : \A e \in below : e <= d)

RECURSIVE TreeMatches(_), TreeSize(_)
\* every instance of the tree holds one sub_chips entry per part of its
\* definition, in the order of the parts
TreeMatches(inst) ==
    /\ Len(inst.sub_chips) = Len(inst.chip_def.parts)
    /\ \A i \in 1..Len(inst.sub_chips) :
         /\ inst.sub_chips[i].chip_type = inst.chip_def.parts[i].chip_type
         /\ inst.sub_chips[i].connections = inst.chip_def.parts[i].connections
         /\ inst.sub_chips[i].type = "custom" =>
              /\ inst.sub_chips[i].instance.chip_def =
                     files[inst.sub_chips[i].chip_type].chip_def
              /\ TreeMatches(inst.sub_chips[i].instance)

RECURSIVE SumSizes(_, _)
\* the number of sub_chips entries in the instances of entries i.. of a list
SumSizes(sub_chips, i) ==
    IF i > Len(sub_chips) THEN 0
    ELSE 1 + (IF sub_chips[i].type = "custom"
              THEN TreeSize(sub_chips[i].instance) ELSE 0)
           + SumSizes(sub_chips, i + 1)

\* the number of parts in the whole instance tree
TreeSize(inst) == SumSizes(inst.sub_chips, 1)

\* the call of thread t is on a chip whose definitions are free of cycles
AcyclicCall(t) == threads[t].at # "idle" /\ ~Cyclic(threads[t].chip_name)

\* C15: a simulate_chip call on a chip whose definitions reference no chip
\* through itself terminates, with an output map or a failure. While it runs,
\* the instantiations under way never nest deeper than the chip references
\* do, every __init__ has built exactly one sub_chips entry for each part its
\* loop has passed, and simulate never evaluates a part twice; when an output
\* map is returned, every part of every instance was evaluated exactly once.
C15_Terminates ==
    /\ [](\A t \in {"t1"} : AcyclicCall(t) =>
            LET th == threads[t] IN
            /\ Len(th.stack) <= NestingDepth(th.chip_name)
            /\ Len(th.walk) <= NestingDepth(th.chip_name)
            /\ th.result.error.kind # "RecursionError"
            /\ \A k \in 1..Len(th.stack) :
                 /\ Len(th.stack[k].sub_chips) = th.stack[k].i - 1
                 /\ th.stack[k].i <= Len(th.stack[k].chip_def.parts) + 1
            /\ th.at \in {"simulate", "walk"} =>
                 TreeMatches(FrameInstance(th.stack[1]))
            /\ \A j, k \in 1..Len(th.visited) :
                 th.visited[j] = th.visited[k] => j = k
            /\ (th.at = "done" /\ th.result.status = "returned") =>
                 Len(th.visited) = TreeSize(FrameInstance(th.stack[1])))
    /\ AcyclicCall("t1") ~> (threads["t1"].at = "done")

\* C15 witness: a call of Wrap, which nests Top, which nests two Buf, has
\* returned after evaluating the seven parts of its tree once each.
C15_Witness ==
    /\ files["Top"].chip_def.parts =
           << Sub1("Buf", "a", "n"), Sub1("Buf", "n", "out") >>
    /\ threads["t1"].chip_name = "Wrap"
    /\ threads["t1"].at = "done"
    /\ threads["t1"].result.status = "returned"
    /\ Len(threads["t1"].visited) = 7
    /\ NestingDepth("Wrap") = 3

-----------------------------------------------------------------------------
(* hdl_parser.HDLTokenizer                                                 *)

UpperCase == {"A", "B", "C", "D", "E", "F", "G", "H", "I", "J", "K", "L", "M",
              "N", "O", "P", "Q", "R", "S", "T", "U", "V", "W", "X", "Y", "Z"}
LowerCase == {"a", "b", "c", "d", "e", "f", "g", "h", "i", "j", "k", "l", "m",
              "n", "o", "p", "q", "r", "s", "t", "u", "v", "w", "x", "y", "z"}
Digits == {"0", "1", "2", "3", "4", "5", "6", "7", "8", "9"}

\* [a-zA-Z_] and [a-zA-Z0-9_] (also the word characters of \b), and \s
IdentStart == UpperCase \cup LowerCase \cup {"_"}
WordChars == IdentStart \cup Digits
WhitespaceChars == {" ", "\t", "\n", "\r", "\f"}

\* the character at pos, "" outside the text
CharAt(source, pos) == IF pos \in 1..Len(source) THEN source[pos] ELSE ""

RECURSIVE RunLength(_, _, _)
\* the number of consecutive characters of S from pos on
RunLength(source, pos, S) ==
    IF pos <= Len(source) /\ source[pos] \in S
    THEN 1 + RunLength(source, pos + 1, S) ELSE 0

RECURSIVE LineRest(_, _)
\* .* : the number of characters from pos up to the end of the line
LineRest(source, pos) ==
    IF pos <= Len(source) /\ source[pos] # "\n"
    THEN 1 + LineRest(source, pos + 1) ELSE 0

\* \b between the characters pos - 1 and pos
WordBoundary(source, pos) ==
    (CharAt(source, pos - 1) \in WordChars) # (CharAt(source, pos) \in WordChars)

StartsWith(source, pos, lexeme) ==
    /\ pos + Len(lexeme) - 1 <= Len(source)
    /\ SubSeq(source, pos, pos + Len(lexeme) - 1) = lexeme

\* the names of TOKEN_PATTERNS, in the order of the alternation
TOKEN_PATTERNS ==
    << "CHIP", "IN", "OUT", "PARTS", "IDENTIFIER", "LBRACE", "RBRACE",
       "LPAREN", "RPAREN", "SEMICOLON", "COMMA", "EQUALS", "COLON", "COMMENT",
       "WHITESPACE", "NEWLINE" >>

Keywords == {"CHIP", "IN", "OUT", "PARTS"}

\* the literal a keyword or punctuation pattern matches
Literal(name) ==
    CASE name = "CHIP"      -> <<"C", "H", "I", "P">>
      [] name = "IN"        -> <<"I", "N">>
      [] name = "OUT"       -> <<"O", "U", "T">>
      [] name = "PARTS"     -> <<"P", "A", "R", "T", "S">>
      [] name = "LBRACE"    -> <<"{">>
      [] name = "RBRACE"    -> <<"}">>
      [] name = "LPAREN"    -> <<"(">>
      [] name = "RPAREN"    -> <<")">>
      [] name = "SEMICOLON" -> <<";">>
      [] name = "COMMA"     -> <<",">>
      [] name = "EQUALS"    -> <<"=">>
      [] name = "COLON"     -> <<":">>

\* the length of the match of one pattern at pos, 0 when it does not match
MatchLength(name, source, pos) ==
    CASE name \in Keywords ->
           IF /\ WordBoundary(source, pos)
              /\ StartsWith(source, pos, Literal(name))
              /\ WordBoundary(source, pos + Len(Literal(name)))
           THEN Len(Literal(name)) ELSE 0
      [] name = "IDENTIFIER" ->
           IF CharAt(source, pos) \in IdentStart
           THEN RunLength(source, pos, WordChars) ELSE 0
      [] name = "COMMENT" ->
           IF StartsWith(source, pos, <<"/", "/">>)
           THEN 2 + LineRest(source, pos + 2) ELSE 0
      [] name = "WHITESPACE" -> RunLength(source, pos, WhitespaceChars)
      [] name = "NEWLINE" -> IF CharAt(source, pos) = "\n" THEN 1 ELSE 0
      [] OTHER -> IF StartsWith(source, pos, Literal(name)) THEN 1 ELSE 0

RECURSIVE Scan(_, _, _, _)
\* the loop over self.regex.finditer(text) from pos on: the first pattern of
\* the alternation that matches at pos gives the token; where none matches
\* the search moves on by one character, which `skipped` records
Scan(source, pos, toks, skipped) ==
    IF pos > Len(source)
    THEN [status |-> "returned", tokens |-> toks, skipped |-> skipped]
    ELSE LET matching == {k \in 1..Len(TOKEN_PATTERNS) :
                             MatchLength(TOKEN_PATTERNS[k], source, pos) > 0}
         IN IF matching = {}
            THEN Scan(source, pos + 1, toks, Append(skipped, pos))
            ELSE LET k == CHOOSE j \in matching : \A m \in matching : j <= m
                     token_type == TOKEN_PATTERNS[k]
                     n == MatchLength(token_type, source, pos)
                     token_value == SubSeq(source, pos, pos + n - 1)
                 IN IF token_type \in {"WHITESPACE", "COMMENT", "NEWLINE"}
                    THEN Scan(source, pos + n, toks, skipped)
                    ELSE Scan(source, pos + n,
                              Append(toks, <<token_type, token_value>>), skipped)

\* HDLTokenizer.tokenize
tokenize(source) == Scan(source, 1, <<>>, <<>>)

-----------------------------------------------------------------------------
(* hdl_parser.HDLParser; position is self.position, counted from 0         *)

\* _current_token returns None at the end of the tokens
NoToken == <<>>

\* what a parsing method returns (ok, the position it leaves and its value)
\* or raises (the ValueError of _expect_token: the expected type, the token)
Parsed(position, value) ==
    [ok |-> TRUE, position |-> position, value |-> value, expected |-> "",
     found |-> NoToken]
Failed(position, expected, found) ==
    [ok |-> FALSE, position |-> position, value |-> <<>>,
     expected |-> expected, found |-> found]

current_token(toks, position) ==
    IF position < Len(toks) THEN toks[position + 1] ELSE NoToken

\* an _expect_token that takes a token of any type for the expected one
expect_token_any(toks, position, expected_type) ==
    LET token == current_token(toks, position) IN
    IF token = NoToken
    THEN Failed(position + 1, expected_type, token)
    ELSE Parsed(position + 1, token[2])

\* _expect_token: _advance, then the test of the token's type
expect_token(toks, position, expected_type) ==
    LET token == current_token(toks, position) IN
    IF token = NoToken \/ token[1] # expected_type
    THEN Failed(position + 1, expected_type, token)
    ELSE Parsed(position + 1, token[2])

\* the next token is a COMMA
AtComma(toks, position) ==
    /\ current_token(toks, position) # NoToken
    /\ current_token(toks, position)[1] = "COMMA"

\* sequencing of two steps of a method: `rest` runs on what `step` returned,
\* and what `step` raised propagates
Then(step, rest(_)) == IF step.ok THEN rest(step) ELSE step

RECURSIVE parse_pin_names(_, _, _)
\* the while loop of _parse_in_section / _parse_out_section
parse_pin_names(toks, position, names) ==
    IF AtComma(toks, position)
    THEN Then(expect_token(toks, position + 1, "IDENTIFIER"), LAMBDA more :
         parse_pin_names(toks, more.position, Append(names, more.value)))
    ELSE Parsed(position, names)

\* the body the two pin sections share: keyword, first pin, further pins, ';'
parse_pin_section(toks, position, keyword) ==
    Then(expect_token(toks, position, keyword), LAMBDA kw :
    Then(expect_token(toks, kw.position, "IDENTIFIER"), LAMBDA first :
    Then(parse_pin_names(toks, first.position, <<first.value>>), LAMBDA names :
    Then(expect_token(toks, names.position, "SEMICOLON"), LAMBDA semi :
    Parsed(semi.position, names.value)))))

parse_in_section(toks, position) == parse_pin_section(toks, position, "IN")
parse_out_section(toks, position) == parse_pin_section(toks, position, "OUT")

\* connections[pin_name] = signal_name: a key that is present keeps its place
ConnSet(connections, pin_name, signal_name) ==
    IF ConnHas(connections, pin_name)
    THEN [i \in 1..Len(connections) |->
             IF connections[i][1] = pin_name THEN <<pin_name, signal_name>>
             ELSE connections[i]]
    ELSE Append(connections, <<pin_name, signal_name>>)

\* pin_name '=' signal_name, stored into connections
parse_connection(toks, position, connections) ==
    Then(expect_token(toks, position, "IDENTIFIER"), LAMBDA pin_name :
    Then(expect_token(toks, pin_name.position, "EQUALS"), LAMBDA equals :
    Then(expect_token(toks, equals.position, "IDENTIFIER"), LAMBDA signal_name :
    Parsed(signal_name.position,
           ConnSet(connections, pin_name.value, signal_name.value)))))

RECURSIVE parse_connections(_, _, _)
\* the while loop of _parse_part_instance
parse_connections(toks, position, connections) ==
    IF AtComma(toks, position)
    THEN Then(parse_connection(toks, position + 1, connections), LAMBDA more :
         parse_connections(toks, more.position, more.value))
    ELSE Parsed(position, connections)

\* _parse_part_instance
parse_part_instance(toks, position) ==
    Then(expect_token(toks, position, "IDENTIFIER"), LAMBDA chip_type :
    Then(expect_token(toks, chip_type.position, "LPAREN"), LAMBDA lparen :
    Then(parse_connection(toks, lparen.position, <<>>), LAMBDA first :
    Then(parse_connections(toks, first.position, first.value), LAMBDA connections :
    Then(expect_token(toks, connections.position, "RPAREN"), LAMBDA rparen :
    Then(expect_token(toks, rparen.position, "SEMICOLON"), LAMBDA semi :
    Parsed(semi.position, Part(chip_type.value, connections.value))))))))

RECURSIVE parse_parts(_, _, _)
\* the while loop of _parse_parts_section
parse_parts(toks, position, parts) ==
    IF /\ current_token(toks, position) # NoToken
       /\ current_token(toks, position)[1] # "RBRACE"
    THEN Then(parse_part_instance(toks, position), LAMBDA part :
         parse_parts(toks, part.position, Append(parts, part.value)))
    ELSE Parsed(position, parts)

\* _parse_parts_section
parse_parts_section(toks, position) ==
    Then(expect_token(toks, position, "PARTS"), LAMBDA kw :
    Then(expect_token(toks, kw.position, "COLON"), LAMBDA colon :
    parse_parts(toks, colon.position, <<>>)))

\* _parse_chip from position 0
parse_chip_steps(toks) ==
    Then(expect_token(toks, 0, "CHIP"), LAMBDA kw :
    Then(expect_token(toks, kw.position, "IDENTIFIER"), LAMBDA chip_name :
    Then(expect_token(toks, chip_name.position, "LBRACE"), LAMBDA lbrace :
    Then(parse_in_section(toks, lbrace.position), LAMBDA inputs :
    Then(parse_out_section(toks, inputs.position), LAMBDA outputs :
    Then(parse_parts_section(toks, outputs.position), LAMBDA parts :
    Then(expect_token(toks, parts.position, "RBRACE"), LAMBDA rbrace :
    Parsed(rbrace.position,
           Chip(chip_name.value, inputs.value, outputs.value,
                parts.value)))))))))

\* _parse_chip: the ChipDefinition it returns or the ValueError it raises
parse_chip(toks) ==
    LET done == parse_chip_steps(toks) IN
    IF done.ok
    THEN [status |-> "returned", chip_def |-> done.value,
          position |-> done.position, expected |-> "", found |-> NoToken]
    ELSE [status |-> "raised", chip_def |-> NoChip,
          position |-> done.position, expected |-> done.expected,
          found |-> done.found]

-----------------------------------------------------------------------------
(* The HDL texts explored and parse_text                                   *)

\* the lexemes of CHIP X { IN a, b; OUT o; PARTS: N(a=a, b=o); }
SectionIn == << Literal("IN"), <<"a">>, <<",">>, <<"b">>, <<";">> >>
SectionOut == << Literal("OUT"), <<"o">>, <<";">> >>
SectionParts ==
    << Literal("PARTS"), <<":">>, <<"N">>, <<"(">>, <<"a">>, <<"=">>, <<"a">>,
       <<",">>, <<"b">>, <<"=">>, <<"o">>, <<")">>, <<";">> >>
ChipOpen == << Literal("CHIP"), <<"X">>, <<"{">> >>
ChipClose == << <<"}">> >>
CanonicalLexemes ==
    ChipOpen \o SectionIn \o SectionOut \o SectionParts \o ChipClose

RECURSIVE Flatten(_)
Flatten(seqs) ==
    IF seqs = <<>> THEN <<>> ELSE seqs[1] \o Flatten(Tail(seqs))

\* bodies of up to MaxSections sections in any order and number
MaxSections == 4
SectionOrders ==
    {ChipOpen \o Flatten(sections) \o ChipClose :
        sections \in SeqsUpTo({SectionIn, SectionOut, SectionParts}, MaxSections)}

\* the lexemes a mutation puts in: every keyword and punctuation, names,
\* and character runs around keywords, digits, comments and stray characters
MutationLexemes ==
    {Literal(name) : name \in {"CHIP", "IN", "OUT", "PARTS", "LBRACE", "RBRACE",
                               "LPAREN", "RPAREN", "SEMICOLON", "COMMA",
                               "EQUALS", "COLON"}}
    \cup { <<"a">>, <<"o">>, <<"_", "a", "1">>,
           <<"9", "C", "H", "I", "P">>, <<"C", "H", "I", "P", "S">>,
           <<"i", "n">>, <<"9">>, <<"@">>, <<"/">>, <<"\n">>,
           <<"/", "/", " ", "I", "N", "\n">> }

Replaced(lexemes, i, lexeme) == [lexemes EXCEPT ![i] = lexeme]
Inserted(lexemes, i, lexeme) ==
    SubSeq(lexemes, 1, i) \o <<lexeme>> \o SubSeq(lexemes, i + 1, Len(lexemes))
Deleted(lexemes, i) ==
    SubSeq(lexemes, 1, i - 1) \o SubSeq(lexemes, i + 1, Len(lexemes))

\* the canonical chip with one lexeme replaced, inserted or deleted, or cut
Mutations ==
    {Replaced(CanonicalLexemes, i, l) :
        i \in 1..Len(CanonicalLexemes), l \in MutationLexemes}
    \cup {Inserted(CanonicalLexemes, i, l) :
        i \in 0..Len(CanonicalLexemes), l \in MutationLexemes}
    \cup {Deleted(CanonicalLexemes, i) : i \in 1..Len(CanonicalLexemes)}
    \cup {SubSeq(CanonicalLexemes, 1, i) : i \in 0..Len(CanonicalLexemes)}

\* how lexemes are laid out: a space between any two, a space only between
\* two word characters, or a new line and a tab between any two
Layouts == {"spaced", "tight", "lines"}

RECURSIVE Render(_, _)
Render(lexemes, layout) ==
    IF lexemes = <<>> THEN <<>>
    ELSE LET head == lexemes[1]
             rest == Render(Tail(lexemes), layout)
         IN IF rest = <<>> THEN head
            ELSE CASE layout = "spaced" -> head \o <<" ">> \o rest
                   [] layout = "lines" -> head \o <<"\n", "\t">> \o rest
                   [] layout = "tight" ->
                        IF head[Len(head)] \in WordChars /\ rest[1] \in WordChars
                        THEN head \o <<" ">> \o rest
                        ELSE head \o rest

Texts ==
    {Render(lexemes, layout) :
        lexemes \in SectionOrders \cup Mutations, layout \in Layouts}

\* an HDLParser about to run parse_text on one of the texts
InitParser ==
    /\ files = Directory(<<>>)
    /\ NewSimulator
    /\ NoRunningCall
    /\ history = <<>>
    /\ NoGate
    /\ NoThreads
    /\ NoModels
    /\ text \in Texts
    /\ tokens = NoTokens
    /\ parse_out = NoParsed

\* parse_text: self.tokens = self.tokenizer.tokenize(text)
ParseTextTokenize ==
    /\ tokens.status = "none"
    /\ tokens' = tokenize(text)
    /\ UNCHANGED <<files, simVars, callVars, history, gateVars, threadVars,
                   text, parse_out, modelVars>>

\* parse_text: self.position = 0; return self._parse_chip()
ParseTextParse ==
    /\ tokens.status = "returned"
    /\ parse_out.status = "none"
    /\ parse_out' = parse_chip(tokens.tokens)
    /\ UNCHANGED <<files, simVars, callVars, history, gateVars, threadVars,
                   text, tokens, modelVars>>

NextParser == ParseTextTokenize \/ ParseTextParse

SpecParser == InitParser /\ [][NextParser]_vars

-----------------------------------------------------------------------------
(* Properties of the parser and the tokenizer                              *)

\* the grammar as a deterministic automaton over token kinds:
\*   chip := CHIP IDENT '{' IN idents ';' OUT idents ';' PARTS ':' part* '}'
\*   part := IDENT '(' binding (',' binding)* ')' ';'
\* GrammarStep gives the state after a token of `kind`, "stuck" when the
\* grammar allows no token of that kind in `state`
GrammarStep(state, kind) ==
    CASE state = "chip"      /\ kind = "CHIP"       -> "name"
      [] state = "name"      /\ kind = "IDENTIFIER" -> "lbrace"
      [] state = "lbrace"    /\ kind = "LBRACE"     -> "in"
      [] state = "in"        /\ kind = "IN"         -> "in_pin"
      [] state = "in_pin"    /\ kind = "IDENTIFIER" -> "in_more"
      [] state = "in_more"   /\ kind = "COMMA"      -> "in_pin"
      [] state = "in_more"   /\ kind = "SEMICOLON"  -> "out"
      [] state = "out"       /\ kind = "OUT"        -> "out_pin"
      [] state = "out_pin"   /\ kind = "IDENTIFIER" -> "out_more"
      [] state = "out_more"  /\ kind = "COMMA"      -> "out_pin"
      [] state = "out_more"  /\ kind = "SEMICOLON"  -> "parts"
      [] state = "parts"     /\ kind = "PARTS"      -> "colon"
      [] state = "colon"     /\ kind = "COLON"      -> "part"
      [] state = "part"      /\ kind = "IDENTIFIER" -> "lparen"
      [] state = "part"      /\ kind = "RBRACE"     -> "end"
      [] state = "lparen"    /\ kind = "LPAREN"     -> "pin"
      [] state = "pin"       /\ kind = "IDENTIFIER" -> "equals"
      [] state = "equals"    /\ kind = "EQUALS"     -> "signal"
      [] state = "signal"    /\ kind = "IDENTIFIER" -> "bind_more"
      [] state = "bind_more" /\ kind = "COMMA"      -> "pin"
      [] state = "bind_more" /\ kind = "RPAREN"     -> "semi"
      [] state = "semi"      /\ kind = "SEMICOLON"  -> "part"
      [] OTHER -> "stuck"

\* the kind an error names in `state`: where the grammar allows two kinds it
\* is the one that ends the list, and for a part the closing brace at the
\* end of the tokens and a part's name before any other token
GrammarExpected(state, at_end) ==
    CASE state = "chip" -> "CHIP"
      [] state \in {"name", "in_pin", "out_pin", "pin", "signal"} -> "IDENTIFIER"
      [] state = "lbrace" -> "LBRACE"
      [] state = "in" -> "IN"
      [] state = "out" -> "OUT"
      [] state \in {"in_more", "out_more", "semi"} -> "SEMICOLON"
      [] state = "parts" -> "PARTS"
      [] state = "colon" -> "COLON"
      [] state = "part" -> IF at_end THEN "RBRACE" ELSE "IDENTIFIER"
      [] state = "lparen" -> "LPAREN"
      [] state = "equals" -> "EQUALS"
      [] state = "bind_more" -> "RPAREN"

RECURSIVE GrammarRun(_, _, _)
\* the run of the automaton over toks from token i on: it accepts after the
\* closing brace at token `at`, or stops at the first token `at` the grammar
\* does not allow (Len(toks) + 1 when the tokens end too early)
GrammarRun(toks, i, state) ==
    IF state = "end"
    THEN [accepts |-> TRUE, at |-> i - 1, expected |-> ""]
    ELSE IF i > Len(toks)
    THEN [accepts |-> FALSE, at |-> i, expected |-> GrammarExpected(state, TRUE)]
    ELSE IF GrammarStep(state, toks[i][1]) = "stuck"
    THEN [accepts |-> FALSE, at |-> i, expected |-> GrammarExpected(state, FALSE)]
    ELSE GrammarRun(toks, i + 1, GrammarStep(state, toks[i][1]))

\* C16: the parser returns a ChipDefinition exactly for the token sequences
\* that begin with one chip of the grammar (CHIP IDENT '{', then the IN, the
\* OUT and the PARTS section once each in this order, every pin list and
\* every part's binding list non-empty, every part closed by ';'), and it
\* leaves the tokens after the chip's closing brace unread; on any other
\* sequence it raises at the first token the grammar does not allow, or at
\* the end of the tokens, an error that names the expected kind and the
\* token found (None at the end), and returns no ChipDefinition
C16_GrammarOnly ==
    parse_out.status # "none" =>
        LET run == GrammarRun(tokens.tokens, 1, "chip") IN
        IF run.accepts
        THEN /\ parse_out.status = "returned"
             /\ parse_out.position = run.at
        ELSE /\ parse_out.status = "raised"
             /\ parse_out.chip_def = NoChip
             /\ parse_out.expected = run.expected
             /\ parse_out.position = run.at
             /\ parse_out.found = IF run.at <= Len(tokens.tokens)
                                  THEN tokens.tokens[run.at] ELSE NoToken

\* the OUT section written before the IN section: the parser raises at the
\* OUT keyword, naming IN as expected
C16_Witness ==
    /\ parse_out.status = "raised"
    /\ parse_out.expected = "IN"
    /\ parse_out.found = <<"OUT", Literal("OUT")>>
    /\ parse_out.position = 4
    /\ \E i \in 1..Len(tokens.tokens) : i > 4 /\ tokens.tokens[i][1] = "IN"

\* the values of the IDENTIFIER tokens among the tokens a..b, in order
IdentifierToken(token) == token[1] = "IDENTIFIER"
TokenValues(toks) == [i \in 1..Len(toks) |-> toks[i][2]]
IdentifiersIn(toks, a, b) ==
    TokenValues(SelectSeq(SubSeq(toks, a, b), IdentifierToken))

\* the index of the first token of `kind`, and the number of tokens of
\* `kind` among the first i tokens
FirstOf(toks, kind) ==
    CHOOSE i \in 1..Len(toks) :
        /\ toks[i][1] = kind
        /\ \A j \in 1..(i - 1) : toks[j][1] # kind
CountOf(toks, i, kind) == Cardinality({j \in 1..i : toks[j][1] = kind})

RECURSIVE CommaSeparated(_)
\* the lexemes of a list of lexeme groups with a comma between two groups
CommaSeparated(groups) ==
    IF groups = <<>> THEN <<>>
    ELSE IF Len(groups) = 1 THEN groups[1]
    ELSE groups[1] \o << <<",">> >> \o CommaSeparated(Tail(groups))

\* the canonical text of the structural fields of a ChipDefinition
SerializedPart(part) ==
    << part.chip_type, <<"(">> >>
    \o CommaSeparated([i \in 1..Len(part.connections) |->
           << part.connections[i][1], <<"=">>, part.connections[i][2] >>])
    \o << <<")">>, <<";">> >>
Serialized(chip) ==
    << Literal("CHIP"), chip.name, <<"{">>, Literal("IN") >>
    \o CommaSeparated([i \in 1..Len(chip.inputs) |-> <<chip.inputs[i]>>])
    \o << <<";">>, Literal("OUT") >>
    \o CommaSeparated([i \in 1..Len(chip.outputs) |-> <<chip.outputs[i]>>])
    \o << <<";">>, Literal("PARTS"), <<":">> >>
    \o Flatten([i \in 1..Len(chip.parts) |-> SerializedPart(chip.parts[i])])
    \o << <<"}">> >>

\* C17 (as stated): the ChipDefinition returned for an accepted text has the
\* name written after CHIP, the pin names of the IN and of the OUT section
\* in source order, one part per part of the source in source order, and in
\* every part's connections each binding pin = signal of the source as the
\* entry pin -> signal; the canonical text of these fields parses to an
\* equal ChipDefinition
C17_Original ==
    parse_out.status = "returned" =>
        LET toks == SubSeq(tokens.tokens, 1, parse_out.position)
            chip == parse_out.chip_def
            again == parse_chip(tokenize(Render(Serialized(chip), "spaced")).tokens)
        IN /\ chip.name = toks[2][2]
           /\ chip.inputs =
                  IdentifiersIn(toks, FirstOf(toks, "IN"), FirstOf(toks, "OUT"))
           /\ chip.outputs =
                  IdentifiersIn(toks, FirstOf(toks, "OUT"), FirstOf(toks, "PARTS"))
           /\ Len(chip.parts) = CountOf(toks, Len(toks), "LPAREN")
           /\ \A i \in 2..Len(toks) :
                  toks[i][1] = "LPAREN" =>
                      chip.parts[CountOf(toks, i, "LPAREN")].chip_type
                          = toks[i - 1][2]
           /\ \A i \in 2..Len(toks) :
                  toks[i][1] = "EQUALS" =>
                      LET part == chip.parts[CountOf(toks, i, "LPAREN")] IN
                      /\ ConnHas(part.connections, toks[i - 1][2])
                      /\ ConnGet(part.connections, toks[i - 1][2]) = toks[i + 1][2]
           /\ again.status = "returned"
           /\ again.chip_def = chip

\* C18 (as stated): every ChipDefinition the parser returns has pin names
\* that are non-empty identifiers, and no pin name occurs twice within
\* inputs, within outputs or across inputs and outputs
C18_Original ==
    parse_out.status = "returned" =>
        LET pins == parse_out.chip_def.inputs \o parse_out.chip_def.outputs IN
        /\ \A i \in 1..Len(pins) :
               /\ pins[i] # <<>>
               /\ pins[i][1] \in IdentStart
               /\ \A k \in 1..Len(pins[i]) : pins[i][k] \in WordChars
        /\ \A i, j \in 1..Len(pins) : i # j => pins[i] # pins[j]

RECURSIVE FindFrom(_, _, _)
\* the first position from pos on at which the lexeme stands, 0 if none
FindFrom(source, pos, lexeme) ==
    IF pos + Len(lexeme) - 1 > Len(source) THEN 0
    ELSE IF StartsWith(source, pos, lexeme) THEN pos
    ELSE FindFrom(source, pos + 1, lexeme)

RECURSIVE InSourceOrder(_, _, _, _)
\* the lexemes of the tokens i.. stand in the source from pos on, one after
\* the other without overlap
InSourceOrder(toks, i, source, pos) ==
    \/ i > Len(toks)
    \/ /\ FindFrom(source, pos, toks[i][2]) # 0
       /\ InSourceOrder(toks, i + 1, source,
                        FindFrom(source, pos, toks[i][2]) + Len(toks[i][2]))

\* C19 (as stated): no whitespace, newline or comment is among the tokens
\* tokenize returns; every token's kind is the kind of its lexeme (a keyword
\* kind exactly for the lexemes CHIP, IN, OUT, PARTS, which are never
\* IDENTIFIER tokens; IDENTIFIER for any other word; the punctuation kind
\* for a punctuation character); and the tokens are in source order
C19_Original ==
    tokens.status = "returned" =>
        LET toks == tokens.tokens IN
        /\ \A i \in 1..Len(toks) :
               /\ toks[i][1] \notin {"WHITESPACE", "COMMENT", "NEWLINE"}
               /\ toks[i][2] # <<>>
               /\ \A k \in Keywords : toks[i][1] = k <=> toks[i][2] = Literal(k)
               /\ toks[i][1] = "IDENTIFIER" =>
                      /\ toks[i][2][1] \in IdentStart
                      /\ \A n \in 1..Len(toks[i][2]) : toks[i][2][n] \in WordChars
               /\ toks[i][1] \notin Keywords \cup {"IDENTIFIER"} =>
                      toks[i][2] = Literal(toks[i][1])
        /\ InSourceOrder(toks, 1, text, 1)

\* C20 (as stated): tokenize returns a token sequence only for a text in
\* which every character belongs to a match of a token pattern; it does not
\* skip a character that starts no match and go on with the rest of the text
C20_Original ==
    tokens.status = "returned" => tokens.skipped = <<>>

-----------------------------------------------------------------------------
(* Properties of BuiltinGate.evaluate                                      *)

\* a required input pin of the gate is missing from the map or holds a value
\* that is not 0 or 1 (None included)
InvalidGateInput ==
    \E i \in 1..Len(gate_inputs(gate)) :
        \/ gate_inputs(gate)[i] \notin DOMAIN gate_in
        \/ gate_in[gate_inputs(gate)[i]] \notin {0, 1}

\* C21: BuiltinGate.evaluate raises and returns no outputs exactly when a
\* required input pin is missing from the input map or holds a value that is
\* not 0 or 1; otherwise it returns the row of the gate's truth table for
\* the values given, so no default stands in for an input and every value
\* returned is 0 or 1
C21_EvaluateValidates ==
    gate_out.evaluate.status # "none" =>
        IF InvalidGateInput
        THEN /\ gate_out.evaluate.status = "raised"
             /\ gate_out.evaluate.error.kind = "ValueError"
             /\ gate_out.evaluate.outputs = EmptyDict
        ELSE /\ gate_out.evaluate.status = "returned"
             /\ DOMAIN gate_out.evaluate.outputs = {"out"}
             /\ gate_out.evaluate.outputs["out"] \in {0, 1}
             /\ \E row \in get_truth_table(gate) :
                    /\ row.out = gate_out.evaluate.outputs["out"]
                    /\ \A i \in 1..Len(gate_inputs(gate)) :
                           row[gate_inputs(gate)[i]] = gate_in[gate_inputs(gate)[i]]

\* And evaluated on a map whose b is unset: the call raises
C21_Witness ==
    /\ gate = "And"
    /\ "a" \in DOMAIN gate_in /\ gate_in["a"] = 1
    /\ "b" \in DOMAIN gate_in /\ gate_in["b"] = None
    /\ gate_out.evaluate.status = "raised"

-----------------------------------------------------------------------------
(* Property of parse_text at the end of the chip                           *)

\* C30 (as stated): parse_text returns a ChipDefinition only when the chip
\* takes up all the tokens; tokens that have a further token after the
\* chip's closing brace are rejected with an error
C30_Original ==
    parse_out.status = "returned" => parse_out.position = Len(tokens.tokens)

-----------------------------------------------------------------------------
(* Properties of the definition cache over a sequence of calls             *)

\* the load of `name` fails: there is no file for it or the file is not HDL
LoadFails(name) == name \notin DOMAIN files \/ ~files[name].parses

\* C28: over any sequence of simulate_chip calls, with the
\* load_chip_definition calls each of them makes, an entry of the cache is
\* never removed or replaced; the cache holds no name whose load fails, so
\* every entry is the definition parsed from the name's file; and a call for
\* a name whose load fails leaves the cache as it was and parses the file
\* again on every call
C28_CacheGrows ==
    /\ [](\A name \in DOMAIN chip_cache :
              /\ ~LoadFails(name)
              /\ chip_cache[name] = files[name].chip_def)
    /\ [][/\ \A name \in DOMAIN chip_cache :
                 /\ name \in DOMAIN chip_cache'
                 /\ chip_cache'[name] = chip_cache[name]
          /\ \A name \in SeqCallNames :
                 (/\ LoadFails(name)
                  /\ Len(history') = Len(history) + 1
                  /\ history'[Len(history')].chip_name = name)
                 => /\ chip_cache' = chip_cache
                    /\ history'[Len(history')].result.status = "raised"
                    /\ Count(parse_count', name) = Count(parse_count, name) + 1
         ]_vars

\* And is cached by a first call, then Bad is asked for twice: both loads
\* fail, Bad.hdl is parsed twice, and And is still cached
C28_Witness ==
    /\ Len(history) = 3
    /\ history[1].chip_name = "And"
    /\ history[2].chip_name = "Bad" /\ history[2].result.status = "raised"
    /\ history[3].chip_name = "Bad" /\ history[3].result.status = "raised"
    /\ DOMAIN chip_cache = {"And"}
    /\ Count(parse_count, "Bad") = 2

-----------------------------------------------------------------------------
(* Property of the chip definitions during simulate_chip                   *)

\* every reference an instance holds into its chip definition shows the
\* definition as it was parsed: chip_def itself, and the chip_type and the
\* connection map each entry of sub_chips shares with its part, in PARTS
\* order, down through the sub-instances
RECURSIVE DefinitionKept(_)
DefinitionKept(inst) ==
    /\ inst.chip_def.name \in DOMAIN files
    /\ inst.chip_def = files[inst.chip_def.name].chip_def
    /\ Len(inst.sub_chips) = Len(inst.chip_def.parts)
    /\ \A i \in 1..Len(inst.sub_chips) :
           /\ inst.sub_chips[i].chip_type = inst.chip_def.parts[i].chip_type
           /\ inst.sub_chips[i].connections = inst.chip_def.parts[i].connections
           /\ inst.sub_chips[i].type = "custom"
                  => DefinitionKept(inst.sub_chips[i].instance)

\* C29: at every step of a simulate_chip call, returning or raising, every
\* cached definition and every definition reached from the instance has the
\* name, inputs, outputs, parts order and connection maps of its parsed file
C29_DefinitionsKept ==
    /\ \A name \in DOMAIN chip_cache :
           /\ name \in DOMAIN files
           /\ chip_cache[name].name = files[name].chip_def.name
           /\ chip_cache[name].inputs = files[name].chip_def.inputs
           /\ chip_cache[name].outputs = files[name].chip_def.outputs
           /\ chip_cache[name].parts = files[name].chip_def.parts
    /\ instance # NoInstance => DefinitionKept(instance)

\* a call of Top that evaluated a sub-chip part and then raised in its second
\* part: the definitions of Top and of the sub-chip are as parsed
C29_Witness ==
    /\ phase = "done"
    /\ outcome.status = "raised"
    /\ call.chip_name = "Top"
    /\ Len(evaluated) = 2
    /\ instance.sub_chips[1].type = "custom"
    /\ DOMAIN chip_cache = {"Top", instance.sub_chips[1].chip_type}

-----------------------------------------------------------------------------
(* Property of the input pins during simulate                              *)

\* the value set_inputs seeds for input pin p of the called chip
Seeded(p) ==
    IF p \in DOMAIN call.input_values THEN call.input_values[p] ELSE None

\* C27: while simulate runs and when it has ended, every declared input pin
\* of the called chip holds the value seeded by set_inputs
C27_Original ==
    (phase \in {"simulate", "parts", "done"} /\ instance # NoInstance)
        => \A p \in ListSet(instance.chip_def.inputs) :
               instance.signals[p] = Seeded(p)

-----------------------------------------------------------------------------
(* One ChipInstance used for several set_inputs / simulate calls           *)

\* CHIP Half { IN a; OUT out; PARTS: Top(a=a, out=out); }
HalfChip ==
    Chip("Half", <<"a">>, <<"out">>, << Sub1("Top", "a", "out") >>)

\* PARTS lists of Top in the directories an instance is reused in
ReuseChoices ==
    { <<>>,
      << Gate2("Nand", "a", "b", "n"), Gate1("Not", "n", "out") >>,
      << Gate2("And", "a", "b", "out"), Gate1("Not", "a", "b") >>,
      << Gate1("Not", "b", "a"), Gate2("And", "a", "b", "out") >>,
      << Gate1("Not", "n", "out") >>,
      << Sub1("Buf", "a", "n"), Sub1("Buf", "n", "out") >> }

\* the directory of Directory(parts) with Half.hdl added
ReuseDirectory(parts) ==
    [n \in {"And", "Buf", "Wrap", "Top", "Bad", "Half"} |->
        IF n = "Half" THEN File(HalfChip) ELSE Directory(parts)[n]]

ReuseNames == {"Top", "Half", "Wrap", "Ghost"}

\* full and partial input maps
ReuseInputMaps ==
    [{"a", "b"} -> {0, 1}] \cup {[k \in {"a"} |-> v] : v \in {0, 1}}

InitReuse ==
    /\ files \in {ReuseDirectory(parts) : parts \in ReuseChoices}
    /\ NewSimulator
    /\ NoRunningCall
    /\ history = <<>>
    /\ NoGate
    /\ NoThreads
    /\ NoModels
    /\ NoParser

\* create_chip_instance(chip_name): the instance the later calls are made on
CreateInstance(chip_name) ==
    /\ phase = "idle"
    /\ LET made == create_chip_instance(SimState, chip_name) IN
       /\ SetSimState(made.st)
       /\ call' = [chip_name |-> chip_name, input_values |-> EmptyDict]
       /\ IF made.error # NoError
          THEN /\ phase' = "done"
               /\ outcome' = Raised(made.error)
               /\ instance' = instance
          ELSE /\ phase' = "ready"
               /\ outcome' = outcome
               /\ instance' = made.instance
    /\ UNCHANGED <<files, pc, evaluated, history, gateVars, threadVars, parserVars, modelVars>>

\* the values the input pins of the instance hold
InputPinValues(inst) ==
    [p \in ListSet(inst.chip_def.inputs) |-> inst.signals[p]]

\* instance.set_inputs(input_values)
SetInputsCall(input_values) ==
    /\ phase = "ready"
    /\ Len(history) < MaxCalls
    /\ instance' = set_inputs(instance, input_values)
    /\ history' = Append(history,
           [chip_name |-> call.chip_name, input_values |-> input_values,
            result |-> NoOutcome])
    /\ UNCHANGED <<files, simVars, phase, call, pc, evaluated, outcome,
                   gateVars, threadVars, parserVars, modelVars>>

\* what instance.simulate() returned or raised, and the instance it left
SimulateCallEnd(run, result) ==
    /\ instance' = run.instance
    /\ outcome' = result
    /\ history' = Append(history,
           [chip_name |-> call.chip_name,
            input_values |-> InputPinValues(instance),
            result |-> result])

\* instance.simulate(); the call is recorded with the input-pin values it
\* started from
SimulateCall ==
    /\ phase = "ready"
    /\ Len(history) < MaxCalls
    /\ LET run == simulate(instance) IN
       SimulateCallEnd(run, IF run.error # NoError THEN Raised(run.error)
                            ELSE Returned(run.outputs))
    /\ UNCHANGED <<files, simVars, phase, call, pc, evaluated,
                   gateVars, threadVars, parserVars, modelVars>>

NextReuse ==
    \/ \E chip_name \in ReuseNames : CreateInstance(chip_name)
    \/ \E input_values \in ReuseInputMaps : SetInputsCall(input_values)
    \/ SimulateCall

SpecReuse == InitReuse /\ [][NextReuse]_vars

\* what simulate gives on a newly built instance of the called chip whose
\* input pins are set to input_values
FreshOutcome(input_values) ==
    LET run == simulate(set_inputs(
                   create_chip_instance(SimState, call.chip_name).instance,
                   input_values))
    IN IF run.error # NoError THEN Raised(run.error) ELSE Returned(run.outputs)

\* C26: every simulate call made on a reused instance has the outcome that
\* simulate has on a newly built instance with the same input-pin values
C26_Original ==
    \A i \in 1..Len(history) :
        history[i].result.status # "none"
            => history[i].result = FreshOutcome(history[i].input_values)

-----------------------------------------------------------------------------
(* models/chip_models.py: SimulationState                                  *)

\* a set_input that stores the value before it tests it
set_input_storing(st, pin_name, value) ==
    [error |-> IF value \notin {0, 1}
               THEN Raise("ValueError", "Input value must be 0 or 1")
               ELSE NoError,
     st |-> [st EXCEPT !.input_values = DictSet(@, pin_name, value)]]

\* SimulationState.set_input
set_input(st, pin_name, value) ==
    IF value \notin {0, 1}
    THEN [error |-> Raise("ValueError", "Input value must be 0 or 1"), st |-> st]
    ELSE [error |-> NoError,
          st |-> [st EXCEPT !.input_values = DictSet(@, pin_name, value)]]

\* SimulationState.set_internal_signal
set_internal_signal(st, signal_name, value) ==
    IF value \notin {0, 1}
    THEN [error |-> Raise("ValueError", "Signal value must be 0 or 1"), st |-> st]
    ELSE [error |-> NoError,
          st |-> [st EXCEPT !.internal_signals = DictSet(@, signal_name, value)]]

\* SimulationState.get_signal_value
get_signal_value(st, signal_name) ==
    IF signal_name \in DOMAIN st.input_values
    THEN st.input_values[signal_name]
    ELSE IF signal_name \in DOMAIN st.output_values
    THEN st.output_values[signal_name]
    ELSE IF signal_name \in DOMAIN st.internal_signals
    THEN st.internal_signals[signal_name]
    ELSE None

\* the names and the values the calls are made with
StateNames == {"a", "out"}
StateValues == {0, 1, 2, None}

\* SimulationState(chip_name) or SimulationState(chip_name, output_values=...)
InitState ==
    /\ files = Directory(<<>>)
    /\ NewSimulator
    /\ NoRunningCall
    /\ history = <<>>
    /\ NoGate
    /\ NoThreads
    /\ NoParser
    /\ NoDefinition /\ NoReport /\ NoTester
    /\ sim_state \in {[input_values |-> EmptyDict, output_values |-> o,
                       internal_signals |-> EmptyDict] :
                          o \in {EmptyDict, [k \in {"out"} |-> 1]}}
    /\ state_call = [method |-> "", name |-> "", value |-> None,
                     status |-> "none", error |-> NoError, returned |-> None]

\* what a setter call leaves: the state and the record of the call
SetterEnd(method, name, value, r) ==
    /\ sim_state' = r.st
    /\ state_call' = [method |-> method, name |-> name, value |-> value,
                      status |-> IF r.error # NoError THEN "raised"
                                 ELSE "returned",
                      error |-> r.error, returned |-> None]

SetInput(pin_name, value) ==
    /\ SetterEnd("set_input", pin_name, value,
                 set_input(sim_state, pin_name, value))
    /\ UNCHANGED <<files, simVars, callVars, history, gateVars, threadVars,
                   parserVars, definitionVars, reportVars, testerVars>>

SetInternalSignal(signal_name, value) ==
    /\ SetterEnd("set_internal_signal", signal_name, value,
                 set_internal_signal(sim_state, signal_name, value))
    /\ UNCHANGED <<files, simVars, callVars, history, gateVars, threadVars,
                   parserVars, definitionVars, reportVars, testerVars>>

GetSignalValue(signal_name) ==
    /\ state_call' = [method |-> "get_signal_value", name |-> signal_name,
                      value |-> None, status |-> "returned", error |-> NoError,
                      returned |-> get_signal_value(sim_state, signal_name)]
    /\ UNCHANGED <<files, simVars, callVars, history, gateVars, threadVars,
                   parserVars, sim_state, definitionVars, reportVars,
                   testerVars>>

NextState ==
    \/ \E pin_name \in StateNames, value \in StateValues :
           SetInput(pin_name, value)
    \/ \E signal_name \in StateNames, value \in StateValues :
           SetInternalSignal(signal_name, value)
    \/ \E signal_name \in StateNames : GetSignalValue(signal_name)

SpecState == InitState /\ [][NextState]_vars

\* the last call was a setter
SetterCalled == state_call.method \in {"set_input", "set_internal_signal"}

\* the dict the last setter call writes to
SetterDict ==
    IF state_call.method = "set_input" THEN sim_state.input_values
    ELSE sim_state.internal_signals

\* C25: set_input and set_internal_signal raise ValueError exactly for a
\* value that is not 0 or 1, a raising call leaves the three dicts as they
\* were and an accepted call stores the value, so every stored input and
\* internal value is 0 or 1; get_signal_value of a name that is in none of
\* the three dicts returns None
C25_SettersValidate ==
    /\ [](SetterCalled =>
              IF state_call.value \in {0, 1}
              THEN /\ state_call.status = "returned"
                   /\ state_call.name \in DOMAIN SetterDict
                   /\ SetterDict[state_call.name] = state_call.value
              ELSE /\ state_call.status = "raised"
                   /\ state_call.error.kind = "ValueError")
    /\ [][state_call'.status = "raised" => sim_state' = sim_state]_vars
    /\ [](/\ \A k \in DOMAIN sim_state.input_values :
                 sim_state.input_values[k] \in {0, 1}
          /\ \A k \in DOMAIN sim_state.internal_signals :
                 sim_state.internal_signals[k] \in {0, 1})
    /\ []((/\ state_call.method = "get_signal_value"
           /\ state_call.name \notin DOMAIN sim_state.input_values
           /\ state_call.name \notin DOMAIN sim_state.output_values
           /\ state_call.name \notin DOMAIN sim_state.internal_signals)
              => state_call.returned = None)

\* set_internal_signal("out", 2) was rejected on a state that holds an input
\* and an internal signal
C25_Witness ==
    /\ state_call.method = "set_internal_signal"
    /\ state_call.name = "out"
    /\ state_call.value = 2
    /\ state_call.status = "raised"
    /\ "a" \in DOMAIN sim_state.input_values
    /\ "out" \in DOMAIN sim_state.internal_signals

-----------------------------------------------------------------------------
(* models/chip_models.py: the ChipDefinition constructor.  A name is a     *)
(* sequence of characters; a part is given by its instance_name            *)

\* not s or not s.strip()
IsBlank(s) == \A i \in 1..Len(s) : s[i] \in WhitespaceChars

\* str.isidentifier on ASCII text
isidentifier(s) ==
    /\ Len(s) > 0
    /\ s[1] \in IdentStart
    /\ \A i \in 1..Len(s) : s[i] \in WordChars

\* ChipDefinition._validate_name: the error it raises
validate_name(name) ==
    IF IsBlank(name) THEN Raise("ValueError", "Chip name cannot be empty")
    ELSE IF ~isidentifier(name)
    THEN Raise("ValueError", "Chip name is not a valid identifier")
    ELSE NoError

\* the loop of _validate_pins over all_pins
PinNameError(all_pins) ==
    IF \E i \in 1..Len(all_pins) : IsBlank(all_pins[i])
          /\ \A j \in 1..(i - 1) : isidentifier(all_pins[j])
    THEN Raise("ValueError", "Pin name cannot be empty")
    ELSE IF \E i \in 1..Len(all_pins) : ~isidentifier(all_pins[i])
    THEN Raise("ValueError", "Pin name is not a valid identifier")
    ELSE NoError

\* a _validate_pins without the test for duplicate pin names
validate_pins_repeating(inputs, outputs) ==
    IF inputs = <<>>
    THEN Raise("ValueError", "Chip must have at least one input")
    ELSE IF outputs = <<>>
    THEN Raise("ValueError", "Chip must have at least one output")
    ELSE PinNameError(inputs \o outputs)

\* ChipDefinition._validate_pins: the error it raises
validate_pins(inputs, outputs) ==
    IF inputs = <<>>
    THEN Raise("ValueError", "Chip must have at least one input")
    ELSE IF outputs = <<>>
    THEN Raise("ValueError", "Chip must have at least one output")
    ELSE IF Len(inputs \o outputs) # Cardinality(ListSet(inputs \o outputs))
    THEN Raise("ValueError", "Duplicate pin names found")
    ELSE PinNameError(inputs \o outputs)

\* ChipDefinition._validate_parts: the error it raises
validate_parts(parts) ==
    IF \E i, j \in 1..Len(parts) : i < j /\ parts[i] = parts[j]
    THEN Raise("ValueError", "Duplicate instance name")
    ELSE NoError

\* ChipDefinition.__post_init__: the first error of the three validations
post_init(name, inputs, outputs, parts) ==
    IF validate_name(name) # NoError THEN validate_name(name)
    ELSE IF validate_pins(inputs, outputs) # NoError
    THEN validate_pins(inputs, outputs)
    ELSE validate_parts(parts)

\* the constructor arguments explored
DefinitionNames ==
    { <<>>, <<" ">>, <<"T">>, <<"T", "9">>, <<"9", "T">>, <<"T", "-">>,
      <<"_">>, <<" ", "T">> }
InputPinNames == { <<"a">>, <<"b">>, <<"9">>, <<>> }
OutputPinNames == { <<"o">>, <<"a">> }
InstanceNames == { <<>>, <<"nand1">>, <<"nand1", "not1">>, <<"nand1", "nand1">> }

InitDefinition ==
    /\ files = Directory(<<>>)
    /\ NewSimulator
    /\ NoRunningCall
    /\ history = <<>>
    /\ NoGate
    /\ NoThreads
    /\ NoParser
    /\ NoState /\ NoReport /\ NoTester
    /\ definition_args \in
           [name : DefinitionNames, inputs : SeqsUpTo(InputPinNames, 2),
            outputs : SeqsUpTo(OutputPinNames, 2), parts : InstanceNames]
    /\ definition_out = [status |-> "none", error |-> NoError,
                         chip_def |-> NoChip]

\* what the constructor call gives for the error __post_init__ raised
Constructed(error) ==
    IF error # NoError
    THEN [status |-> "raised", error |-> error, chip_def |-> NoChip]
    ELSE [status |-> "returned", error |-> NoError,
          chip_def |-> [name |-> definition_args.name,
                        inputs |-> definition_args.inputs,
                        outputs |-> definition_args.outputs,
                        parts |-> definition_args.parts]]

\* ChipDefinition(name, inputs, outputs, parts)
ConstructDefinition ==
    /\ definition_out.status = "none"
    /\ definition_out' = Constructed(post_init(definition_args.name,
           definition_args.inputs, definition_args.outputs,
           definition_args.parts))
    /\ UNCHANGED <<files, simVars, callVars, history, gateVars, threadVars,
                   parserVars, definition_args, stateVars, reportVars,
                   testerVars>>

NextDefinition == ConstructDefinition

SpecDefinition == InitDefinition /\ [][NextDefinition]_vars

\* some pin name occurs twice in inputs + outputs
RepeatedPin(all_pins) ==
    \E i, j \in 1..Len(all_pins) : i < j /\ all_pins[i] = all_pins[j]

\* the arguments the constructor has to reject
RejectedArguments ==
    \/ definition_args.name = <<>>
    \/ ~isidentifier(definition_args.name)
    \/ definition_args.inputs = <<>>
    \/ definition_args.outputs = <<>>
    \/ RepeatedPin(definition_args.inputs \o definition_args.outputs)

\* C23: the constructor raises ValueError and builds no definition when the
\* name is empty or not an identifier, when inputs or outputs is empty, or
\* when a pin name is repeated in inputs + outputs; a definition it returns
\* has none of these and holds the arguments
C23_ConstructorValidates ==
    definition_out.status # "none" =>
        IF RejectedArguments
        THEN /\ definition_out.status = "raised"
             /\ definition_out.error.kind = "ValueError"
             /\ definition_out.chip_def = NoChip
        ELSE definition_out.status = "returned" =>
                 /\ definition_out.chip_def.name = definition_args.name
                 /\ definition_out.chip_def.inputs = definition_args.inputs
                 /\ definition_out.chip_def.outputs = definition_args.outputs

\* ChipDefinition("T9", ["a", "b"], ["o", "a"]) was rejected: only the
\* repeated pin a is wrong
C23_Witness ==
    /\ definition_args.name = <<"T", "9">>
    /\ definition_args.inputs = << <<"a">>, <<"b">> >>
    /\ definition_args.outputs = << <<"o">>, <<"a">> >>
    /\ definition_args.parts = <<>>
    /\ definition_out.status = "raised"
    /\ definition_out.error.what = "Duplicate pin names found"

-----------------------------------------------------------------------------
(* models/test_models.py: TestResult and TestReport.  results holds the    *)
(* TestResult objects; the report's list holds references to them, which   *)
(* are indices into results                                                *)

\* TestResult.passed, failed, has_error
passed(result) == result.status = "passed"
failed(result) == result.status = "failed"
has_error(result) == result.status = "error"

\* TestResult.mark_passed, mark_failed, mark_error
mark_passed(result) == [status |-> "passed", error_message |-> "None"]
mark_failed(result) == [status |-> "failed", error_message |-> "reason"]
mark_error(result) == [status |-> "error", error_message |-> "error"]

\* the TestResult objects the report refers to, in list order
Referred(rep, res) == [i \in 1..Len(rep.test_results) |-> res[rep.test_results[i]]]

\* TestReport.total_tests, passed_tests, failed_tests, error_tests
total_tests(rep) == Len(rep.test_results)
passed_tests(rep, res) ==
    Cardinality({i \in 1..Len(rep.test_results) : passed(Referred(rep, res)[i])})
failed_tests(rep, res) ==
    Cardinality({i \in 1..Len(rep.test_results) : failed(Referred(rep, res)[i])})
error_tests(rep, res) ==
    Cardinality({i \in 1..Len(rep.test_results) : has_error(Referred(rep, res)[i])})

\* TestReport.pass_rate: the quotient as <<numerator, denominator>>
pass_rate(rep, res) ==
    IF total_tests(rep) = 0 THEN <<0, 1>>
    ELSE <<passed_tests(rep, res) * 100, total_tests(rep)>>

\* an all_passed without the test for an empty report
all_passed_of_none(rep, res) == passed_tests(rep, res) = total_tests(rep)

\* TestReport.all_passed
all_passed(rep, res) ==
    passed_tests(rep, res) = total_tests(rep) /\ total_tests(rep) > 0

\* the status a TestResult is constructed with
NewStatuses == {"pending", "skipped"}

\* TestReport(chip_name, test_suite)
InitReport ==
    /\ files = Directory(<<>>)
    /\ NewSimulator
    /\ NoRunningCall
    /\ history = <<>>
    /\ NoGate
    /\ NoThreads
    /\ NoParser
    /\ NoState /\ NoDefinition /\ NoTester
    /\ NoReport

\* TestResult(test_vector, status=status)
NewResult(status) ==
    /\ Len(results) < MaxResults
    /\ results' = Append(results, [status |-> status, error_message |-> "None"])
    /\ UNCHANGED <<files, simVars, callVars, history, gateVars, threadVars,
                   parserVars, stateVars, definitionVars, testerVars, report,
                   add_calls>>

\* report.add_result(result) for the TestResult object r
AddResult(r) ==
    /\ add_calls < MaxResults
    /\ report' = [report EXCEPT !.test_results = Append(@, r)]
    /\ add_calls' = add_calls + 1
    /\ UNCHANGED <<files, simVars, callVars, history, gateVars, threadVars,
                   parserVars, stateVars, definitionVars, testerVars, results>>

\* result.mark_passed() for the TestResult object r
MarkPassed(r) ==
    /\ results' = [results EXCEPT ![r] = mark_passed(@)]
    /\ UNCHANGED <<files, simVars, callVars, history, gateVars, threadVars,
                   parserVars, stateVars, definitionVars, testerVars, report,
                   add_calls>>

\* result.mark_failed(reason) for the TestResult object r
MarkFailed(r) ==
    /\ results' = [results EXCEPT ![r] = mark_failed(@)]
    /\ UNCHANGED <<files, simVars, callVars, history, gateVars, threadVars,
                   parserVars, stateVars, definitionVars, testerVars, report,
                   add_calls>>

\* result.mark_error(error) for the TestResult object r
MarkError(r) ==
    /\ results' = [results EXCEPT ![r] = mark_error(@)]
    /\ UNCHANGED <<files, simVars, callVars, history, gateVars, threadVars,
                   parserVars, stateVars, definitionVars, testerVars, report,
                   add_calls>>

NextReport ==
    \/ \E status \in NewStatuses : NewResult(status)
    \/ \E r \in 1..Len(results) : AddResult(r)
    \/ \E r \in 1..Len(results) : MarkPassed(r)
    \/ \E r \in 1..Len(results) : MarkFailed(r)
    \/ \E r \in 1..Len(results) : MarkError(r)

SpecReport == InitReport /\ [][NextReport]_vars

\* C24: total_tests is the number of add_result calls; the passed, failed
\* and error counts add up to at most total_tests and no result is counted
\* in two of them; all_passed holds exactly when the report is not empty and
\* every added result is PASSED now; an empty report has pass_rate 0 and
\* all_passed false
C24_ReportCounts ==
    /\ total_tests(report) = add_calls
    /\ passed_tests(report, results) + failed_tests(report, results)
           + error_tests(report, results) <= total_tests(report)
    /\ \A i \in 1..Len(report.test_results) :
           LET result == results[report.test_results[i]] IN
           /\ ~(passed(result) /\ failed(result))
           /\ ~(passed(result) /\ has_error(result))
           /\ ~(failed(result) /\ has_error(result))
    /\ all_passed(report, results) <=>
           /\ total_tests(report) > 0
           /\ \A i \in 1..Len(report.test_results) :
                  results[report.test_results[i]].status = "passed"
    /\ total_tests(report) = 0 =>
           /\ pass_rate(report, results) = <<0, 1>>
           /\ ~all_passed(report, results)

\* three results were added and marked: one passed, one failed, one in error
C24_Witness ==
    /\ add_calls = 3
    /\ passed_tests(report, results) = 1
    /\ failed_tests(report, results) = 1
    /\ error_tests(report, results) = 1
    /\ ~all_passed(report, results)

-----------------------------------------------------------------------------
(* tester.py: ChipTester.run_test_file and _run_single_test                *)

TestCase(inputs, expected_outputs) ==
    [inputs |-> inputs, expected_outputs |-> expected_outputs]

TestResult(test_case, actual_outputs, was_passed, message) ==
    [test_case |-> test_case, actual_outputs |-> actual_outputs,
     passed |-> was_passed, message |-> message]

\* the loop of _run_single_test over expected_outputs: every expected pin has
\* its expected value in actual_outputs (a missing pin reads as None)
OutputsMatch(test_case, actual_outputs) ==
    \A pin \in DOMAIN test_case.expected_outputs :
        DictGet(actual_outputs, pin, None) = test_case.expected_outputs[pin]

\* an except clause that reports the test case as passed
run_single_test_forgiving(test_case, done) ==
    IF done.result.status = "raised"
    THEN TestResult(test_case, EmptyDict, TRUE, "ERROR")
    ELSE TestResult(test_case, done.result.outputs,
                    OutputsMatch(test_case, done.result.outputs),
                    IF OutputsMatch(test_case, done.result.outputs)
                    THEN "PASS" ELSE "FAIL")

\* _run_single_test, given what its simulate_chip call returned or raised:
\* the except clause, or the comparison with the expected outputs
run_single_test(test_case, done) ==
    IF done.result.status = "raised"
    THEN TestResult(test_case, EmptyDict, FALSE, "ERROR")
    ELSE TestResult(test_case, done.result.outputs,
                    OutputsMatch(test_case, done.result.outputs),
                    IF OutputsMatch(test_case, done.result.outputs)
                    THEN "PASS" ELSE "FAIL")

\* the test cases a test file is made of, and the test files
TestCases ==
    {TestCase(inputs, expected_outputs) :
        inputs \in SeqInputMaps \cup {[k \in {"a"} |-> 1]},
        expected_outputs \in {[k \in {"out"} |-> v] : v \in {0, 1}}}

TestSuites ==
    [chip_name : {"Top", "And", "Ghost"},
     test_cases : SeqsUpTo(TestCases, MaxCalls)]

\* PARTS lists of Top in the directories the tests run in
TesterChoices ==
    { << Gate2("Nand", "a", "b", "n"), Gate1("Not", "n", "out") >>,
      << Gate2("Or", "a", "b", "out"), Gate1("Not", "n", "out") >>,
      << Sub1("Buf", "a", "out"), Sub1("Ghost", "a", "out") >> }

\* ChipTester(base_directory), and run_test_file after parser.parse_file
InitTester ==
    /\ files \in {Directory(parts) : parts \in TesterChoices}
    /\ NewSimulator
    /\ NoRunningCall
    /\ history = <<>>
    /\ NoGate
    /\ NoThreads
    /\ NoParser
    /\ NoState /\ NoDefinition /\ NoReport
    /\ test_suite \in TestSuites
    /\ test_results = <<>>
    /\ passed_count = 0
    /\ summary_stats = NoSummary

\* the end of one turn of the loop: the simulator after the call, the result
\* appended, the counter
RunTestCaseEnd(done, result) ==
    /\ SetSimState(done.st)
    /\ test_results' = Append(test_results, result)
    /\ passed_count' = IF result.passed THEN passed_count + 1 ELSE passed_count

\* one turn of the loop of run_test_file
RunTestCaseTurn(test_case) ==
    RunTestCaseEnd(
        simulate_chip(SimState, test_suite.chip_name, test_case.inputs),
        run_single_test(test_case,
            simulate_chip(SimState, test_suite.chip_name, test_case.inputs)))

RunTestCase ==
    /\ summary_stats = NoSummary
    /\ Len(test_results) < Len(test_suite.test_cases)
    /\ RunTestCaseTurn(test_suite.test_cases[Len(test_results) + 1])
    /\ UNCHANGED <<files, callVars, history, gateVars, threadVars, parserVars,
                   stateVars, definitionVars, reportVars, test_suite,
                   summary_stats>>

\* run_test_file after the loop: the summary
RunTestFileReturn ==
    /\ summary_stats = NoSummary
    /\ Len(test_results) = Len(test_suite.test_cases)
    /\ summary_stats' =
           [total |-> Len(test_suite.test_cases),
            passed |-> passed_count,
            failed |-> Len(test_suite.test_cases) - passed_count,
            pass_rate |-> IF Len(test_suite.test_cases) > 0
                          THEN <<passed_count * 100, Len(test_suite.test_cases)>>
                          ELSE <<0, 1>>]
    /\ UNCHANGED <<files, simVars, callVars, history, gateVars, threadVars,
                   parserVars, stateVars, definitionVars, reportVars,
                   test_suite, test_results, passed_count>>

NextTester == RunTestCase \/ RunTestFileReturn

SpecTester == InitTester /\ [][NextTester]_vars

\* simulate_chip raises for the inputs of test case i of the suite
CaseRaises(i) ==
    simulate_chip(FreshSimulator, test_suite.chip_name,
                  test_suite.test_cases[i].inputs).result.status = "raised"

\* C22: the results are those of the test cases in file order; a test case
\* whose simulation raises is recorded as failed with empty actual outputs
\* and the cases after it are run; run_test_file returns a result for every
\* test case and a summary with total = number of test cases and
\* passed + failed = total
C22_ErrorsRecorded ==
    /\ Len(test_results) <= Len(test_suite.test_cases)
    /\ \A i \in 1..Len(test_results) :
           /\ test_results[i].test_case = test_suite.test_cases[i]
           /\ CaseRaises(i) => /\ test_results[i].passed = FALSE
                               /\ test_results[i].actual_outputs = EmptyDict
                               /\ test_results[i].message = "ERROR"
    /\ summary_stats # NoSummary =>
           /\ Len(test_results) = Len(test_suite.test_cases)
           /\ summary_stats.total = Len(test_suite.test_cases)
           /\ summary_stats.passed =
                  Cardinality({i \in 1..Len(test_results) : test_results[i].passed})
           /\ summary_stats.passed + summary_stats.failed = summary_stats.total

\* a file of three test cases for a Top whose second part raises KeyError:
\* three failed results with no outputs, and a summary of 0 passed, 3 failed
C22_Witness ==
    /\ summary_stats # NoSummary
    /\ test_suite.chip_name = "Top"
    /\ Len(test_suite.test_cases) = 3
    /\ \A i \in 1..3 : CaseRaises(i) /\ test_results[i].message = "ERROR"
    /\ test_results[1].test_case # test_results[2].test_case
    /\ summary_stats.failed = 3
    /\ "Top" \in DOMAIN chip_cache

====
